---- MODULE Spec2Model ----
(***************************************************************************)
(* Model of ios/Scripts/generate_bobby_history.py: the periodized          *)
(* workout-history generator (plans, programs, workouts, instances, sets). *)
(*                                                                         *)
(* Conventions                                                             *)
(*  - a calendar date is its proleptic Gregorian ordinal (date.toordinal); *)
(*  - a weight is an integer number of tenths (102.0 is 1020), a float     *)
(*    intensity is an exact fraction [num, den];                           *)
(*  - strings that the code transforms (lower, replace, strptime) are      *)
(*    sequences of one-character strings; an f-string is the sequence of   *)
(*    its parts;                                                           *)
(*  - a value that may be None is a sequence: <<>> is None, <<v>> is v.    *)
(***************************************************************************)
EXTENDS Integers, Sequences, FiniteSets, TLC

VARIABLES
    pc,            \* position of the script in main / generate_workouts_with_data
    clock,         \* the system date, read by datetime.now().date()
    hashKey,       \* the per-process key of str hashing (hash randomization)
    rng,           \* state of the process-wide random generator
    rolled,        \* which seeded draws were invoked: <<function, date>>
    plans,         \* result of generate_plans
    programs,      \* result of generate_programs
    i,             \* index of the quarter in the for loop (0-based)
    week_num,      \* the week counter of the calendar walk
    current_date,  \* the day the calendar walk is at
    workouts,      \* list of workout records
    instances,     \* instance id -> instance record
    sets,          \* set id -> set record
    total_stats,   \* the six counters of the walk
    call,          \* last direct call of a function: <<fn, args, ret>>
    first,         \* first seeded call seen over all executions
    targets,       \* result of generate_targets
    existing,      \* what json.load returned for the collection being saved
    output,        \* what json.dump wrote for the collection saved last
    written,       \* the collections rewritten so far, in the order of the writes
    gym_classes,   \* generate_class_instances.py: ids loaded from gym_classes.json
    now,           \* generate_class_instances.py: datetime.now(), <<date, minute of day>>
    class_instances,        \* generate_class_instances.py: instance id -> record
    bookings,               \* generate_class_instances.py: booking id -> record
    bobby_weekly_bookings   \* generate_class_instances.py: week key -> count

\* the variables of main's save steps, and of generate_class_instances.py
mainVars == <<targets, existing, output, written>>
classVars == <<gym_classes, now, class_instances, bookings, bobby_weekly_bookings>>

vars == <<pc, clock, hashKey, rng, rolled, plans, programs, i, week_num,
          current_date, workouts, instances, sets, total_stats, call, first,
          mainVars, classVars>>

None == <<>>
Some(v) == <<v>>

\* ------------------------------------------------------------------ bounds
NumTodays == 6        \* how many system dates are tried
NumHashKeys == 2      \* how many str-hash keys a process may get
MaxWeek == 14         \* week numbers tried in direct calls
MaxReps == 5          \* target reps tried in direct calls
ProbeMargin == 2      \* days tried before the first and after the last quarter
MaxExerciseNum == 2   \* exercise ordinals tried in direct calls
ClassWalkDays == 3    \* days of the class calendar that are walked

\* ------------------------------------------------- character-level strings
Max(a, b) == IF a >= b THEN a ELSE b
Min(a, b) == IF a <= b THEN a ELSE b

UpperCase == <<"A","B","C","D","E","F","G","H","I","J","K","L","M",
               "N","O","P","Q","R","S","T","U","V","W","X","Y","Z">>
LowerCase == <<"a","b","c","d","e","f","g","h","i","j","k","l","m",
               "n","o","p","q","r","s","t","u","v","w","x","y","z">>

\* str.lower()
Lower(s) ==
    [k \in 1..Len(s) |->
        IF \E n \in 1..26 : UpperCase[n] = s[k]
        THEN LowerCase[CHOOSE n \in 1..26 : UpperCase[n] = s[k]]
        ELSE s[k]]

\* str.replace(old, new) for one-character old and new
Replace(s, old, new) == [k \in 1..Len(s) |-> IF s[k] = old THEN new ELSE s[k]]

Digits == <<"0","1","2","3","4","5","6","7","8","9">>
DigitVal(c) == (CHOOSE n \in 1..10 : Digits[n] = c) - 1

RECURSIVE ParseInt(_)
ParseInt(s) ==
    IF Len(s) = 0 THEN 0
    ELSE 10 * ParseInt(SubSeq(s, 1, Len(s) - 1)) + DigitVal(s[Len(s)])

\* ------------------------------------------------------------ the calendar
IsLeap(y) == y % 4 = 0 /\ (y % 100 # 0 \/ y % 400 = 0)
DaysBeforeMonth == <<0, 31, 59, 90, 120, 151, 181, 212, 243, 273, 304, 334>>
DaysBeforeYear(y) ==
    (y - 1) * 365 + ((y - 1) \div 4) - ((y - 1) \div 100) + ((y - 1) \div 400)

\* date(y, m, d).toordinal()
ToOrdinal(y, m, d) ==
    DaysBeforeYear(y) + DaysBeforeMonth[m]
      + (IF m > 2 /\ IsLeap(y) THEN 1 ELSE 0) + d

Years == 2023..2028
YearOf(n) == CHOOSE y \in Years : DaysBeforeYear(y) < n /\ n <= DaysBeforeYear(y + 1)
MonthOf(n) ==
    LET y == YearOf(n)
    IN  CHOOSE m \in 1..12 :
            /\ ToOrdinal(y, m, 1) <= n
            /\ (m = 12 \/ n < ToOrdinal(y, m + 1, 1))
DayOf(n) == n - ToOrdinal(YearOf(n), MonthOf(n), 1) + 1

\* date.weekday(): Monday is 0, Sunday is 6
Weekday(n) == (n + 6) % 7

\* datetime.strptime(s, "%Y-%m-%d").date()
Strptime(s) ==
    ToOrdinal(ParseInt(SubSeq(s, 1, 4)), ParseInt(SubSeq(s, 6, 7)),
              ParseInt(SubSeq(s, 9, 10)))

\* date.strftime("%Y%m%d"), an eight-digit numeral read as a number
Strftime(n) == YearOf(n) * 10000 + MonthOf(n) * 100 + DayOf(n)

\* ------------------------------------------------------------- the tables
QUARTERS == <<
    [name |-> <<"Q","4"," ","2","0","2","4">>,
     start |-> <<"2","0","2","4","-","1","0","-","0","1">>,
     end |-> <<"2","0","2","4","-","1","2","-","3","1">>, bodyweight |-> 144],
    [name |-> <<"Q","1"," ","2","0","2","5">>,
     start |-> <<"2","0","2","5","-","0","1","-","0","1">>,
     end |-> <<"2","0","2","5","-","0","3","-","3","1">>, bodyweight |-> 148],
    [name |-> <<"Q","2"," ","2","0","2","5">>,
     start |-> <<"2","0","2","5","-","0","4","-","0","1">>,
     end |-> <<"2","0","2","5","-","0","6","-","3","0">>, bodyweight |-> 152],
    [name |-> <<"Q","3"," ","2","0","2","5">>,
     start |-> <<"2","0","2","5","-","0","7","-","0","1">>,
     end |-> <<"2","0","2","5","-","0","9","-","3","0">>, bodyweight |-> 149],
    [name |-> <<"Q","4"," ","2","0","2","5">>,
     start |-> <<"2","0","2","5","-","1","0","-","0","1">>,
     end |-> <<"2","0","2","5","-","1","2","-","3","1">>, bodyweight |-> 150] >>

NumQuarters == Len(QUARTERS)

\* the quarter at a 0-based index, as enumerate(QUARTERS) numbers them
Quarter(n) == QUARTERS[n + 1]
QuarterStart(n) == Strptime(Quarter(n).start)
QuarterEnd(n) == Strptime(Quarter(n).end)

ONE_RM_PROGRESSION ==
    [barbell_back_squat |-> <<170, 180, 215, 220, 195>>,
     conventional_deadlift |-> <<130, 155, 200, 240, 260>>,
     barbell_bench_press |-> <<135, 165, 185, 200, 195>>,
     overhead_press |-> <<60, 80, 100, 105, 100>>,
     pull_up |-> <<144, 168, 192, 214, 215>>,
     pendlay_row |-> <<75, 105, 135, 150, 125>>,
     dumbbell_bench_press |-> <<50, 60, 70, 75, 70>>,
     barbell_row |-> <<95, 115, 140, 155, 130>>,
     lat_pulldown |-> <<100, 120, 140, 150, 145>>,
     dumbbell_lateral_raise |-> <<15, 20, 25, 27, 25>>,
     tricep_extension |-> <<40, 50, 60, 65, 60>>,
     barbell_curl |-> <<50, 60, 75, 80, 75>>]

FULL_BODY_EXERCISES == <<
    <<"barbell_back_squat", "conventional_deadlift">>,
    <<"barbell_bench_press", "overhead_press">>,
    <<"pull_up", "barbell_row", "lat_pulldown">>,
    <<"dumbbell_lateral_raise", "tricep_extension">>,
    <<"barbell_curl", "pendlay_row">> >>

\* intensities are hundredths, as written in the table (0.75 is 75)
PROTOCOLS ==
    [strength_3x5_moderate |-> [reps |-> <<5, 5, 5>>, intensity |-> 75, rest |-> 180],
     strength_5x5_straight |-> [reps |-> <<5, 5, 5, 5, 5>>, intensity |-> 70, rest |-> 180],
     strength_3x8_moderate |-> [reps |-> <<8, 8, 8>>, intensity |-> 65, rest |-> 90],
     strength_3x10_moderate |-> [reps |-> <<10, 10, 10>>, intensity |-> 60, rest |-> 90],
     strength_3x12_light |-> [reps |-> <<12, 12, 12>>, intensity |-> 55, rest |-> 60]]

PHASES == <<
    [name |-> <<"A","c","c","u","m","u","l","a","t","i","o","n">>,
     weeks |-> <<1, 4>>, intensity_range |-> <<60, 70>>,
     protocol |-> "strength_3x10_moderate", focus |-> "foundation"],
    [name |-> <<"I","n","t","e","n","s","i","f","i","c","a","t","i","o","n">>,
     weeks |-> <<5, 8>>, intensity_range |-> <<70, 80>>,
     protocol |-> "strength_5x5_straight", focus |-> "development"],
    [name |-> <<"R","e","a","l","i","z","a","t","i","o","n">>,
     weeks |-> <<9, 12>>, intensity_range |-> <<80, 90>>,
     protocol |-> "strength_3x5_moderate", focus |-> "peak"] >>

\* the phase at a 0-based index, as enumerate(PHASES) numbers them
Phase(n) == PHASES[n + 1]

\* --------------------------------------------------------- float rounding
\* round(num / den) to the nearest integer, ties to even
RoundHalfEven(num, den) ==
    LET fl == num \div den
        rem2 == 2 * (num % den)
    IN  IF rem2 > den THEN fl + 1
        ELSE IF rem2 < den THEN fl
        ELSE IF fl % 2 = 0 THEN fl ELSE fl + 1

\* The weights w (in tenths, below 300.0) for which w * 0.9 is a decimal tie
\* and the double product lies on the odd side of it.
FloatTieOdd ==
    {5, 35, 65, 85, 105, 115, 145, 185, 245, 255, 265, 285, 345, 355, 365,
     405, 435, 445, 465, 505, 535, 545, 565, 605, 635, 645, 665, 705, 765,
     785, 795, 805, 865, 885, 895, 905, 965, 985, 995, 1005, 1065, 1085,
     1095, 1105, 1165, 1185, 1195, 1205, 1265, 1285, 1295, 1305, 1365, 1385,
     1395, 1405, 1445, 1485, 1505, 1515, 1545, 1585, 1605, 1615, 1645, 1685,
     1705, 1715, 1745, 1785, 1805, 1815, 1845, 1885, 1905, 1915, 1945, 1985,
     2005, 2015, 2045, 2085, 2105, 2115, 2145, 2185, 2205, 2215, 2245, 2285,
     2305, 2315, 2345, 2385, 2405, 2415, 2445, 2485, 2505, 2515, 2545, 2585,
     2605, 2615, 2645, 2685, 2705, 2715, 2745, 2785, 2805, 2815, 2845, 2855,
     2865, 2885, 2945, 2955, 2965, 2985}

\* DropWeight with the drop taken as 20% instead of 10%
DropWeight_Twenty(target_weight) == RoundHalfEven(8 * target_weight, 10)

\* round(target_weight * 0.9, 1), in tenths
DropWeight(target_weight) ==
    LET he == RoundHalfEven(9 * target_weight, 10)
    IN  IF target_weight \in FloatTieOdd
        THEN (IF he = (9 * target_weight) \div 10 THEN he + 1 ELSE he - 1)
        ELSE he

\* ------------------------------------------------------------ 1RM lookup
\* get_1rm_for_date with the quarter's last day excluded (date < end)
get_1rm_for_date_OpenEnd(exercise_id, workout_date) ==
    IF exercise_id \notin DOMAIN ONE_RM_PROGRESSION THEN 100
    ELSE
        LET values == ONE_RM_PROGRESSION[exercise_id]
            hits == {n \in 0..(NumQuarters - 1) :
                        /\ QuarterStart(n) <= workout_date
                        /\ workout_date < QuarterEnd(n)}
        IN  IF hits # {}
            THEN LET n == CHOOSE m \in hits : \A o \in hits : m <= o
                 IN  values[n + 1]
            ELSE values[Len(values)]

get_1rm_for_date(exercise_id, workout_date) ==
    IF exercise_id \notin DOMAIN ONE_RM_PROGRESSION THEN 100
    ELSE
        LET values == ONE_RM_PROGRESSION[exercise_id]
            hits == {n \in 0..(NumQuarters - 1) :
                        /\ QuarterStart(n) <= workout_date
                        /\ workout_date <= QuarterEnd(n)}
        IN  IF hits # {}
            THEN LET n == CHOOSE m \in hits : \A o \in hits : m <= o
                 IN  IF n < Len(values) THEN values[n + 1] ELSE values[Len(values)]
            ELSE values[Len(values)]

\* --------------------------------------------------------- phase resolver
\* get_phase_for_week without the fallback to the last phase: weeks beyond
\* the table get the first phase
get_phase_for_week_FirstFallback(w) ==
    LET hits == {idx \in 0..(Len(PHASES) - 1) :
                    Phase(idx).weeks[1] <= w /\ w <= Phase(idx).weeks[2]}
    IN  IF hits # {}
        THEN LET idx == CHOOSE m \in hits : \A o \in hits : m <= o
             IN  <<idx, Phase(idx)>>
        ELSE <<0, Phase(0)>>

get_phase_for_week(w) ==
    LET hits == {idx \in 0..(Len(PHASES) - 1) :
                    Phase(idx).weeks[1] <= w /\ w <= Phase(idx).weeks[2]}
    IN  IF hits # {}
        THEN LET idx == CHOOSE m \in hits : \A o \in hits : m <= o
             IN  <<idx, Phase(idx)>>
        ELSE <<2, Phase(2)>>

\* ---------------------------------------------------- intensity of a week
\* The float result as the exact fraction num / den (den > 0).
get_intensity_for_week(w, phase) ==
    LET week_start == phase.weeks[1]
        week_end == phase.weeks[2]
        intensity_start == phase.intensity_range[1]
        intensity_end == phase.intensity_range[2]
        phase_weeks == week_end - week_start + 1
        week_in_phase == w - week_start
        pden == Max(1, phase_weeks - 1)
        pnum == IF phase_weeks > 1 THEN week_in_phase ELSE 0
    IN  [num |-> intensity_start * pden + (intensity_end - intensity_start) * pnum,
         den |-> 100 * pden]

\* ------------------------------------------------ hashing and the generator
\* The key strings: str(date) is kind 0, f"{date}_{n}" kind 1,
\* f"{date}_ex_{n}" kind 2.  hash() of a str is keyed by the process.
Hash(key, kind, date, n) ==
    (key * 7919 + kind * 101 + date * 31 + n * 17) % 32768

\* random.seed(a): the generator state is a function of a alone
Seed(a) == a % 32768
\* one step of the generator
Advance(r) == (r * r + r * 1103 + 12345) % 32768
\* floor(random.random() * 100) drawn in state r (the state after is Advance(r))
Random100(r) == (Advance(r) * 100) \div 32768
\* random.randint(lo, hi) drawn in state r
Randint(r, lo, hi) == lo + ((Advance(r) \div 8) % (hi - lo + 1))

OUTCOMES == <<"hit", "exceeded", "struggled", "weight_drop", "skipped">>
WEIGHTS == <<60, 15, 15, 5, 5>>

RECURSIVE CumWeight(_)
CumWeight(n) == IF n = 0 THEN 0 ELSE CumWeight(n - 1) + WEIGHTS[n]

\* random.choices(OUTCOMES, weights=WEIGHTS)[0]:
\* bisect(cum_weights, random() * total, 0, len - 1)
Choices(r) ==
    LET x == (Advance(r) * CumWeight(Len(WEIGHTS))) \div 32768
        idx == Cardinality({n \in 1..(Len(WEIGHTS) - 1) : CumWeight(n) <= x})
    IN  OUTCOMES[idx + 1]

\* -------------------------------------------------------- outcome sampler
\* Returns [ret |-> <<actual_weight, actual_reps, completion>>, rng |-> state]
generate_actual_performance(target_weight, target_reps, workout_date, exercise_num, key) ==
    LET r0 == Seed(Hash(key, 1, workout_date, exercise_num))
        outcome == Choices(r0)
        r1 == Advance(r0)
    IN  CASE outcome = "hit" ->
                [ret |-> <<Some(target_weight), Some(target_reps), "completed">>, rng |-> r1]
          [] outcome = "exceeded" ->
                [ret |-> <<Some(target_weight), Some(target_reps + Randint(r1, 1, 3)), "completed">>,
                 rng |-> Advance(r1)]
          [] outcome = "struggled" ->
                LET max_fewer == Max(1, Min(2, target_reps - 1))
                    fewer_reps == IF max_fewer > 0 THEN Randint(r1, 1, max_fewer) ELSE 1
                IN  [ret |-> <<Some(target_weight), Some(Max(1, target_reps - fewer_reps)), "completed">>,
                     rng |-> IF max_fewer > 0 THEN Advance(r1) ELSE r1]
          [] outcome = "weight_drop" ->
                [ret |-> <<Some(DropWeight(target_weight)), Some(target_reps), "completed">>, rng |-> r1]
          [] OTHER ->
                [ret |-> <<None, None, "skipped">>, rng |-> r1]

\* ---------------------------------------------------------- the skip gates
should_skip_workout(workout_date, key) ==
    LET r0 == Seed(Hash(key, 0, workout_date, 0))
    IN  [ret |-> Random100(r0) < 10, rng |-> Advance(r0)]

should_skip_exercise(workout_date, exercise_num, key) ==
    LET r0 == Seed(Hash(key, 2, workout_date, exercise_num))
    IN  [ret |-> Random100(r0) < 5, rng |-> Advance(r0)]

\* ------------------------------------------------------ exercise selector
\* select_exercises_for_workout with the same option index in every slot
\* (the slot's own offset i left out)
select_exercises_for_workout_SameOffset(workout_date, workout_type) ==
    IF workout_type = "cardio" THEN <<"treadmill_run">>
    ELSE LET day_num == workout_date
         IN  [k \in 1..Len(FULL_BODY_EXERCISES) |->
                LET group == FULL_BODY_EXERCISES[k]
                IN  group[(day_num % Len(group)) + 1]]

\* day_num is workout_date.toordinal()
select_exercises_for_workout(workout_date, workout_type) ==
    IF workout_type = "cardio" THEN <<"treadmill_run">>
    ELSE LET day_num == workout_date
         IN  [k \in 1..Len(FULL_BODY_EXERCISES) |->
                LET group == FULL_BODY_EXERCISES[k]
                IN  group[((day_num + (k - 1)) % Len(group)) + 1]]

\* --------------------------------------------------------------- the ids
\* q["name"].lower().replace(" ", "_")
QuarterId(n) == Replace(Lower(Quarter(n).name), " ", "_")

PlanId(n) == <<"plan_bobby_", QuarterId(n)>>

\* f"prog_bobby_{quarter_id}_{phase['name'].lower()}"
ProgId(quarter_id, phase) == <<"prog_bobby_", quarter_id, "_", Lower(phase.name)>>

\* date.isoformat()
Isoformat(n) == <<YearOf(n), "-", MonthOf(n), "-", DayOf(n)>>

\* ------------------------------------------------------------------ plans
\* generate_plans(), over the quarter table it reads
generate_plans(quarters) ==
    LET idxs == 0..(Len(quarters) - 1)
        plan(n) ==
            [id |-> PlanId(n),
             name |-> <<quarters[n + 1].name, " Strength">>,
             goal |-> "strength",
             memberId |-> "bobby",
             startDate |-> <<quarters[n + 1].start, "T00:00:00Z">>,
             endDate |-> <<quarters[n + 1].end, "T23:59:59Z">>,
             status |-> IF n = 4 THEN "active" ELSE "completed"]
        ids == {PlanId(n) : n \in idxs}
    IN  \* a later quarter with the same id would overwrite an earlier one
        [id \in ids |->
            plan(CHOOSE n \in idxs :
                    /\ PlanId(n) = id
                    /\ \A o \in idxs : PlanId(o) = id => o <= n)]

\* --------------------------------------------------------------- programs
\* phase dates: roughly four weeks each, clipped to the quarter
PhaseStart(n, phase) == QuarterStart(n) + 7 * (phase.weeks[1] - 1)
\* PhaseEnd with every program running to the end of its quarter
PhaseEnd_QuarterEnd(n, phase) == QuarterEnd(n)

PhaseEnd(n, phase) == Min(QuarterStart(n) + 7 * phase.weeks[2] - 1, QuarterEnd(n))

\* ProgramStatus without the override for the current quarter
ProgramStatus_DatesOnly(n, phase_idx, today) ==
    LET phase == Phase(phase_idx)
    IN  IF PhaseEnd(n, phase) < today THEN "completed"
        ELSE IF PhaseStart(n, phase) <= today /\ today <= PhaseEnd(n, phase)
             THEN "active"
             ELSE "scheduled"

\* the status of a program, with the override for Q4 2025
ProgramStatus(n, phase_idx, today) ==
    LET phase == Phase(phase_idx)
        status == IF PhaseEnd(n, phase) < today THEN "completed"
                  ELSE IF PhaseStart(n, phase) <= today /\ today <= PhaseEnd(n, phase)
                       THEN "active"
                       ELSE "scheduled"
    IN  IF n = 4
        THEN (IF phase_idx = 2 THEN "active"
              ELSE IF phase_idx < 2 THEN "completed" ELSE status)
        ELSE status

generate_programs(today) ==
    LET pairs == (0..(NumQuarters - 1)) \X (0..(Len(PHASES) - 1))
        prog(n, phase_idx) ==
            LET phase == Phase(phase_idx)
            IN  [id |-> ProgId(QuarterId(n), phase),
                 planId |-> PlanId(n),
                 name |-> phase.name,
                 focus |-> phase.focus,
                 status |-> ProgramStatus(n, phase_idx, today),
                 startDate |-> <<Isoformat(PhaseStart(n, phase)), "T00:00:00Z">>,
                 endDate |-> <<Isoformat(PhaseEnd(n, phase)), "T23:59:59Z">>,
                 startingIntensity |-> phase.intensity_range[1],
                 endingIntensity |-> phase.intensity_range[2],
                 progressionType |-> "linear"]
        ids == {ProgId(QuarterId(pr[1]), Phase(pr[2])) : pr \in pairs}
    IN  [id \in ids |->
            LET same == {q \in pairs : ProgId(QuarterId(q[1]), Phase(q[2])) = id}
                pr == CHOOSE q \in same :
                        \A o \in same : o[1] < q[1] \/ (o[1] = q[1] /\ o[2] <= q[2])
            IN  prog(pr[1], pr[2])]

\* ------------------------------------------------------ the calendar walk
\* "Find first Monday": the first day on or after start with weekday() = 0
FirstMonday(start) ==
    CHOOSE d \in start..(start + 6) : Weekday(d) = 0

\* NextWeekNum with the week counted up on Saturdays
NextWeekNum_Saturday(date, w) == IF Weekday(date) = 5 THEN w + 1 ELSE w

\* "Increment week on Sunday": the week counter after the iteration of date
NextWeekNum(date, w) == IF Weekday(date) = 6 THEN w + 1 ELSE w

\* IsPast with today itself counted as past
IsPast_Inclusive(date, today) == date <= today

\* is_past = current_date < today
IsPast(date, today) == date < today

\* WorkoutType with the Friday session forgotten
WorkoutType_NoFriday(day_of_week) ==
    IF day_of_week \in {0, 2} THEN "strength"
    ELSE IF day_of_week \in {1, 3} THEN "cardio"
    ELSE "rest"

\* MWF strength, T/Th cardio, otherwise ("rest") no workout
WorkoutType(day_of_week) ==
    IF day_of_week \in {0, 2, 4} THEN "strength"
    ELSE IF day_of_week \in {1, 3} THEN "cardio"
    ELSE "rest"

Variant(day_of_week) ==
    IF day_of_week \in {0, 2, 4}
    THEN (IF day_of_week = 0 THEN "A" ELSE IF day_of_week = 2 THEN "B" ELSE "C")
    ELSE (IF day_of_week = 1 THEN "A" ELSE "B")

WorkoutId(date, workout_type) ==
    <<"bobby_", Strftime(date), IF workout_type = "strength" THEN "_strength" ELSE "_cardio">>

InstanceId(workout_id, ex_idx) == workout_id \o <<"_ex", ex_idx>>

\* SetId built from the workout id alone, without the exercise index
SetId_OfWorkout(instance_id, set_num) == SubSeq(instance_id, 1, 3) \o <<"_s", set_num + 1>>

SetId(instance_id, set_num) == instance_id \o <<"_s", set_num + 1>>

CardioProtocol == [reps |-> <<1>>, intensity |-> 50, rest |-> 0]

\* the protocol of an instance: its id and its details
ProtocolId(workout_type, phase) ==
    IF workout_type = "cardio" THEN "cardio_30min_steady" ELSE phase.protocol

Protocol(workout_type, phase) ==
    IF workout_type = "cardio" THEN CardioProtocol
    ELSE IF phase.protocol \in DOMAIN PROTOCOLS
         THEN PROTOCOLS[phase.protocol]
         ELSE PROTOCOLS["strength_3x5_moderate"]

\* PhaseIntensity as before v114: the protocol's default intensity
PhaseIntensity_ProtocolDefault(workout_type, w, phase) ==
    IF workout_type = "cardio" THEN [num |-> 50, den |-> 100]
    ELSE [num |-> Protocol(workout_type, phase).intensity, den |-> 100]

\* phase-specific intensity of the week, 0.5 for cardio
PhaseIntensity(workout_type, w, phase) ==
    IF workout_type = "cardio" THEN [num |-> 50, den |-> 100]
    ELSE get_intensity_for_week(w, phase)

\* round(one_rm * phase_intensity, 1), in tenths
TargetWeight(exercise_id, date, phase_intensity) ==
    RoundHalfEven(get_1rm_for_date(exercise_id, date) * phase_intensity.num * 10,
                  phase_intensity.den)

WorkoutSkipped(date, today, key) ==
    IsPast(date, today) /\ should_skip_workout(date, key).ret

ExerciseSkipped(date, ex_idx, today, key) ==
    IsPast(date, today) /\ should_skip_exercise(date, ex_idx, key).ret

WorkoutStatus(date, today, key) ==
    IF WorkoutSkipped(date, today, key) THEN "skipped"
    ELSE IF IsPast(date, today) THEN "completed"
    ELSE "scheduled"

InstanceStatus(date, ex_idx, today, key) ==
    IF ExerciseSkipped(date, ex_idx, today, key) THEN "skipped"
    ELSE IF IsPast(date, today) THEN "completed"
    ELSE "scheduled"

\* <<actual_weight, actual_reps, set_status>> of one set
SetPerformance(instance_status, target_weight, target_reps, date, ex_idx, set_num, today, key) ==
    IF IsPast(date, today) /\ instance_status = "completed"
    THEN generate_actual_performance(target_weight, target_reps, date,
                                     ex_idx * 10 + set_num, key).ret
    ELSE IF IsPast(date, today) /\ instance_status = "skipped"
         THEN <<None, None, "skipped">>
         ELSE <<None, None, "scheduled">>

\* WorkoutProgId with every workout put in the first quarter's programs
WorkoutProgId_FirstQuarter(n, w) == ProgId(QuarterId(0), get_phase_for_week(w)[2])

\* the program of a workout: its quarter's program of the week's phase
WorkoutProgId(n, w) == ProgId(QuarterId(n), get_phase_for_week(w)[2])

\* the workout record of one Monday-Friday iteration
WorkoutData(n, date, w, today, key) ==
    LET day_of_week == Weekday(date)
        workout_type == WorkoutType(day_of_week)
        phase == get_phase_for_week(w)[2]
        status == WorkoutStatus(date, today, key)
        skipped == WorkoutSkipped(date, today, key)
        exercise_ids == select_exercises_for_workout(date, workout_type)
    IN  [id |-> WorkoutId(date, workout_type),
         programId |-> WorkoutProgId(n, w),
         name |-> <<"Week ", w,
                    IF workout_type = "strength" THEN " Full Body " ELSE " Cardio ",
                    Variant(day_of_week)>>,
         scheduledDate |-> <<Isoformat(date), "T10:00:00Z">>,
         type |-> workout_type,
         splitDay |-> IF workout_type = "strength" THEN "full_body" ELSE "not_applicable",
         status |-> status,
         completedDate |-> IF status = "completed"
                           THEN <<Isoformat(date), "T11:30:00Z">> ELSE None,
         exerciseIds |-> IF ~skipped THEN exercise_ids ELSE <<>>,
         protocolVariantIds |->
            IF ~skipped
            THEN [k \in 1..Len(exercise_ids) |-> ProtocolId(workout_type, phase)]
            ELSE <<>>]

\* the instances of one iteration: instance id -> record (of two instances
\* with one id the dict keeps the later one)
InstancesOfDay(date, w, today, key) ==
    LET workout_type == WorkoutType(Weekday(date))
        workout_id == WorkoutId(date, workout_type)
        phase == get_phase_for_week(w)[2]
        exercise_ids == select_exercises_for_workout(date, workout_type)
        idxs == IF WorkoutSkipped(date, today, key) THEN {}
                ELSE 0..(Len(exercise_ids) - 1)
        ids == {InstanceId(workout_id, ex_idx) : ex_idx \in idxs}
        instance(ex_idx) ==
            [id |-> InstanceId(workout_id, ex_idx),
             exerciseId |-> exercise_ids[ex_idx + 1],
             workoutId |-> workout_id,
             protocolVariantId |-> ProtocolId(workout_type, phase),
             setIds |-> [k \in 1..Len(Protocol(workout_type, phase).reps) |->
                            SetId(InstanceId(workout_id, ex_idx), k - 1)],
             status |-> InstanceStatus(date, ex_idx, today, key),
             orderIndex |-> ex_idx]
    IN  [id \in ids |->
            instance(CHOOSE ex_idx \in idxs :
                        /\ InstanceId(workout_id, ex_idx) = id
                        /\ \A o \in idxs : InstanceId(workout_id, o) = id => o <= ex_idx)]

\* the sets of one iteration: set id -> record (the later one of two with one id)
SetsOfDay(date, w, today, key) ==
    LET workout_type == WorkoutType(Weekday(date))
        workout_id == WorkoutId(date, workout_type)
        phase == get_phase_for_week(w)[2]
        protocol == Protocol(workout_type, phase)
        exercise_ids == select_exercises_for_workout(date, workout_type)
        idxs == IF WorkoutSkipped(date, today, key) THEN {}
                ELSE 0..(Len(exercise_ids) - 1)
        pairs == idxs \X (0..(Len(protocol.reps) - 1))
        idOf(pr) == SetId(InstanceId(workout_id, pr[1]), pr[2])
        ids == {idOf(pr) : pr \in pairs}
        setRecord(ex_idx, set_num) ==
            LET target_weight == TargetWeight(exercise_ids[ex_idx + 1], date,
                                              PhaseIntensity(workout_type, w, phase))
                target_reps == protocol.reps[set_num + 1]
                perf == SetPerformance(InstanceStatus(date, ex_idx, today, key),
                                       target_weight, target_reps, date,
                                       ex_idx, set_num, today, key)
            IN  [id |-> SetId(InstanceId(workout_id, ex_idx), set_num),
                 exerciseInstanceId |-> InstanceId(workout_id, ex_idx),
                 setNumber |-> set_num + 1,
                 targetWeight |-> IF workout_type = "strength"
                                  THEN Some(target_weight) ELSE None,
                 targetReps |-> target_reps,
                 actualWeight |-> perf[1],
                 actualReps |-> perf[2],
                 completion |-> perf[3],
                 recordedDate |-> IF perf[3] = "completed"
                                  THEN <<Isoformat(date), "T", 10 + ex_idx, ":",
                                         30 + set_num * 3, ":00Z">>
                                  ELSE None]
    IN  [id \in ids |->
            LET same == {pr \in pairs : idOf(pr) = id}
                last == CHOOSE pr \in same :
                            \A o \in same : o[1] < pr[1] \/ (o[1] = pr[1] /\ o[2] <= pr[2])
            IN  setRecord(last[1], last[2])]

\* the generator state after the last seeded draw of one iteration
RngAfterDay(date, w, today, key, r) ==
    LET workout_type == WorkoutType(Weekday(date))
        phase == get_phase_for_week(w)[2]
        protocol == Protocol(workout_type, phase)
        exercise_ids == select_exercises_for_workout(date, workout_type)
        ex_idx == Len(exercise_ids) - 1
        set_num == Len(protocol.reps) - 1
    IN  IF ~IsPast(date, today) THEN r
        ELSE IF WorkoutSkipped(date, today, key)
             THEN should_skip_workout(date, key).rng
        ELSE IF ExerciseSkipped(date, ex_idx, today, key)
             THEN should_skip_exercise(date, ex_idx, key).rng
        ELSE generate_actual_performance(
                 TargetWeight(exercise_ids[ex_idx + 1], date,
                              PhaseIntensity(workout_type, w, phase)),
                 protocol.reps[set_num + 1], date, ex_idx * 10 + set_num, key).rng

\* which seeded functions one iteration invokes
RolledOfDay(date, today, key, newInstances) ==
    (IF IsPast(date, today) THEN {<<"should_skip_workout", date>>} ELSE {})
    \cup (IF IsPast(date, today) /\ ~WorkoutSkipped(date, today, key)
          THEN {<<"should_skip_exercise", date>>} ELSE {})
    \cup (IF IsPast(date, today)
             /\ \E id \in DOMAIN newInstances : newInstances[id].status = "completed"
          THEN {<<"generate_actual_performance", date>>} ELSE {})

StatsAfterDay(stats, workout, newInstances, newSets) ==
    LET count(f, field, value) == Cardinality({id \in DOMAIN f : f[id][field] = value})
    IN  [workouts_completed |-> stats.workouts_completed
                                 + (IF workout.status = "completed" THEN 1 ELSE 0),
         workouts_skipped |-> stats.workouts_skipped
                                 + (IF workout.status = "skipped" THEN 1 ELSE 0),
         exercises_completed |-> stats.exercises_completed
                                 + count(newInstances, "status", "completed"),
         exercises_skipped |-> stats.exercises_skipped
                                 + count(newInstances, "status", "skipped"),
         sets_completed |-> stats.sets_completed
                                 + count(newSets, "completion", "completed"),
         sets_skipped |-> stats.sets_skipped
                                 + count(newSets, "completion", "skipped")]

\* --------------------------------------------------------- the state space
TodayFirst == ToOrdinal(2024, 10, 2)
\* a day after the end date of a program, inside the last week the walk
\* assigns to it (Wednesday 2024-10-30)
TodayAfterPhaseEnd == PhaseEnd(0, Phase(0)) + 2
Todays == {TodayFirst + 97 * k : k \in 0..(NumTodays - 1)} \cup {TodayAfterPhaseEnd}
HashKeys == 0..(NumHashKeys - 1)

\* a direct call: function name ("none" when there is none), arguments, result
Called(f, a, r) == <<f, a, r>>
Fn(c) == c[1]
Args(c) == c[2]
Ret(c) == c[3]

\* total_stats with every counter at n
Stats(n) == [workouts_completed |-> n, workouts_skipped |-> n,
             exercises_completed |-> n, exercises_skipped |-> n,
             sets_completed |-> n, sets_skipped |-> n]

\* ----------------------------------------- the whole walk, as main calls it
\* The while loop of one quarter, from the iteration at acc.current_date on:
\* what the RestDay and WorkoutDay iterations do to the collections and to
\* the loop variables, until the date passes the quarter's end.
RECURSIVE WalkQuarter(_, _, _, _)
WalkQuarter(n, today, key, acc) ==
    LET date == acc.current_date
        w == acc.week_num
    IN  IF date > QuarterEnd(n) THEN acc
        ELSE IF WorkoutType(Weekday(date)) = "rest"
        THEN WalkQuarter(n, today, key,
                [acc EXCEPT !.week_num = NextWeekNum(date, w),
                            !.current_date = date + 1])
        ELSE LET workout == WorkoutData(n, date, w, today, key)
                 newInstances == InstancesOfDay(date, w, today, key)
                 newSets == SetsOfDay(date, w, today, key)
             IN  WalkQuarter(n, today, key,
                    [workouts |-> Append(acc.workouts, workout),
                     instances |-> newInstances @@ acc.instances,
                     sets |-> newSets @@ acc.sets,
                     total_stats |-> StatsAfterDay(acc.total_stats, workout,
                                                  newInstances, newSets),
                     rolled |-> acc.rolled \cup RolledOfDay(date, today, key, newInstances),
                     rng |-> RngAfterDay(date, w, today, key, acc.rng),
                     week_num |-> NextWeekNum(date, w),
                     current_date |-> date + 1])

\* the for loop over the quarters n, n + 1, ...
RECURSIVE WalkQuarters(_, _, _, _)
WalkQuarters(n, today, key, acc) ==
    IF n >= NumQuarters THEN acc
    ELSE WalkQuarters(n + 1, today, key,
            WalkQuarter(n, today, key,
                [acc EXCEPT !.week_num = 1,
                            !.current_date = FirstMonday(QuarterStart(n))]))

\* generate_workouts_with_data(), run to its return in a process whose clock
\* shows today, whose str-hash key is key and whose generator is in state r
generate_workouts_with_data(today, key, r) ==
    WalkQuarters(0, today, key,
                 [workouts |-> <<>>, instances |-> <<>>, sets |-> <<>>,
                  total_stats |-> Stats(0), rolled |-> {}, rng |-> r,
                  week_num |-> 0, current_date |-> 0])

\* ---------------------------------------------------------------- targets
TargetId(exercise_id) == <<"bobby-", exercise_id>>

\* generate_targets(), over the progression table it reads
generate_targets(progression) ==
    [id \in {TargetId(e) : e \in DOMAIN progression} |->
        LET exercise_id == id[2]
            values == progression[exercise_id]
        IN  [id |-> id,
             memberId |-> "bobby",
             exerciseId |-> exercise_id,
             currentTarget |-> values[Len(values)],
             targetHistory |->
                [n \in 1..Min(NumQuarters, Len(values)) |->
                    [date |-> <<QUARTERS[n].start, "T00:00:00Z">>,
                     target |-> values[n],
                     calibrationSource |-> "quarterly_test"]],
             lastUpdated |-> "2025-10-31T00:00:00Z",
             targetType |-> "max"]]

\* --------------------------------------------------- main: the save steps
\* SaveOrder with the targets saved first
SaveOrder_TargetsFirst == <<"targets", "plans", "programs", "workouts", "instances", "sets">>

\* The collections in the order main rewrites them.
SaveOrder == <<"plans", "programs", "workouts", "instances", "sets", "targets">>

\* the characters of the literal an id starts with
Chars(literal) ==
    CASE literal = "plan_bobby_" -> <<"p","l","a","n","_","b","o","b","b","y","_">>
      [] literal = "plan_alice_" -> <<"p","l","a","n","_","a","l","i","c","e","_">>
      [] literal = "plan_bob_" -> <<"p","l","a","n","_","b","o","b","_">>
      [] literal = "prog_bobby_" -> <<"p","r","o","g","_","b","o","b","b","y","_">>
      [] literal = "prog_alice_" -> <<"p","r","o","g","_","a","l","i","c","e","_">>
      [] literal = "prog_bob_" -> <<"p","r","o","g","_","b","o","b","_">>
      [] literal = "bobby_" -> <<"b","o","b","b","y","_">>
      [] literal = "alice_" -> <<"a","l","i","c","e","_">>
      [] literal = "bob_" -> <<"b","o","b","_">>
      [] literal = "bobby-" -> <<"b","o","b","b","y","-">>
      [] literal = "alice-" -> <<"a","l","i","c","e","-">>
      [] literal = "bob-" -> <<"b","o","b","-">>

\* str.startswith(prefix), on character sequences
StartsWith(s, prefix) ==
    Len(prefix) <= Len(s) /\ SubSeq(s, 1, Len(prefix)) = prefix

\* id.startswith(prefix) for an id given by its parts, the first a literal
IdStartsWith(id, prefix) == StartsWith(Chars(id[1]), prefix)

\* the prefix main strips from a collection before merging
Prefix(name) ==
    CASE name = "plans" -> <<"p","l","a","n","_","b","o","b","b","y">>
      [] name = "programs" -> <<"p","r","o","g","_","b","o","b","b","y">>
      [] name \in {"workouts", "instances", "sets"} -> <<"b","o","b","b","y","_">>

\* Strip that keeps every existing record
Strip_KeepAll(name, loaded) == loaded

\* the existing records main keeps: those whose key (for workouts, whose id)
\* does not start with the prefix
Strip(name, loaded) ==
    IF name = "workouts"
    THEN LET foreign(w) == ~IdStartsWith(w.id, Prefix(name))
         IN  SelectSeq(loaded, foreign)
    ELSE [k \in {id \in DOMAIN loaded : ~IdStartsWith(id, Prefix(name))} |-> loaded[k]]

\* what main dumps for a collection: update / extend of the kept records
\* with the generated ones; targets are overwritten key by key, nothing stripped
Merge(name, loaded, generated) ==
    IF name = "workouts" THEN Strip(name, loaded) \o generated
    ELSE IF name = "targets" THEN generated @@ loaded
    ELSE generated @@ Strip(name, loaded)

\* the generated collection main merges into a file
Generated(name) ==
    CASE name = "plans" -> plans
      [] name = "programs" -> programs
      [] name = "workouts" -> workouts
      [] name = "instances" -> instances
      [] name = "sets" -> sets
      [] name = "targets" -> targets

\* nothing is loaded or written before main's save steps
NotSaving ==
    /\ targets = <<>>
    /\ existing = None
    /\ output = None
    /\ written = <<>>

\* generate_class_instances.py is not running
NoClasses ==
    /\ gym_classes = {}
    /\ now = <<0, 0>>
    /\ class_instances = <<>>
    /\ bookings = <<>>
    /\ bobby_weekly_bookings = <<>>

Init ==
    /\ pc = "main"
    /\ clock \in Todays
    /\ hashKey \in HashKeys
    /\ rng = Seed(42)
    /\ rolled = {}
    /\ plans = <<>>
    /\ programs = <<>>
    /\ i = 0
    /\ week_num = 0
    /\ current_date = 0
    /\ workouts = <<>>
    /\ instances = <<>>
    /\ sets = <<>>
    /\ total_stats = Stats(0)
    /\ call = Called("none", <<>>, None)
    /\ first = Called("none", <<>>, None)
    /\ NotSaving
    /\ NoClasses

\* main: plans = generate_plans()
GeneratePlans ==
    /\ pc = "main"
    /\ plans' = generate_plans(QUARTERS)
    /\ pc' = "plans"
    /\ UNCHANGED <<clock, hashKey, rng, rolled, programs, i, week_num, current_date,
                   workouts, instances, sets, total_stats, call, first,
                   mainVars, classVars>>

\* main: programs = generate_programs()
GeneratePrograms ==
    /\ pc = "plans"
    /\ programs' = generate_programs(clock)
    /\ pc' = "for"
    /\ UNCHANGED <<clock, hashKey, rng, rolled, plans, i, week_num, current_date,
                   workouts, instances, sets, total_stats, call, first,
                   mainVars, classVars>>

\* for i, q in enumerate(QUARTERS): the head of one quarter's walk
StartQuarter ==
    /\ pc = "for"
    /\ i < NumQuarters
    /\ week_num' = 1
    /\ current_date' = FirstMonday(QuarterStart(i))
    /\ pc' = "while"
    /\ UNCHANGED <<clock, hashKey, rng, rolled, plans, programs, i,
                   workouts, instances, sets, total_stats, call, first,
                   mainVars, classVars>>

\* one iteration on a Saturday or Sunday
RestDay ==
    /\ pc = "while"
    /\ current_date <= QuarterEnd(i)
    /\ WorkoutType(Weekday(current_date)) = "rest"
    /\ week_num' = NextWeekNum(current_date, week_num)
    /\ current_date' = current_date + 1
    /\ UNCHANGED <<pc, clock, hashKey, rng, rolled, plans, programs, i,
                   workouts, instances, sets, total_stats, call, first,
                   mainVars, classVars>>

\* one iteration on a Monday to Friday: workout, instances and sets
WorkoutDay ==
    /\ pc = "while"
    /\ current_date <= QuarterEnd(i)
    /\ WorkoutType(Weekday(current_date)) # "rest"
    /\ LET workout == WorkoutData(i, current_date, week_num, clock, hashKey)
           newInstances == InstancesOfDay(current_date, week_num, clock, hashKey)
           newSets == SetsOfDay(current_date, week_num, clock, hashKey)
       IN  /\ workouts' = Append(workouts, workout)
           /\ instances' = newInstances @@ instances
           /\ sets' = newSets @@ sets
           /\ total_stats' = StatsAfterDay(total_stats, workout, newInstances, newSets)
           /\ rolled' = rolled \cup RolledOfDay(current_date, clock, hashKey, newInstances)
    /\ rng' = RngAfterDay(current_date, week_num, clock, hashKey, rng)
    /\ week_num' = NextWeekNum(current_date, week_num)
    /\ current_date' = current_date + 1
    /\ UNCHANGED <<pc, clock, hashKey, plans, programs, i, call, first,
                   mainVars, classVars>>

\* the while loop ends: on to the next quarter
EndQuarter ==
    /\ pc = "while"
    /\ current_date > QuarterEnd(i)
    /\ i' = i + 1
    /\ pc' = "for"
    /\ UNCHANGED <<clock, hashKey, rng, rolled, plans, programs, week_num, current_date,
                   workouts, instances, sets, total_stats, call, first,
                   mainVars, classVars>>

\* return workouts, instances, sets, total_stats
ReturnWorkouts ==
    /\ pc = "for"
    /\ i = NumQuarters
    /\ pc' = "generated"
    /\ UNCHANGED <<clock, hashKey, rng, rolled, plans, programs, i, week_num, current_date,
                   workouts, instances, sets, total_stats, call, first,
                   mainVars, classVars>>

Next ==
    \/ GeneratePlans
    \/ GeneratePrograms
    \/ StartQuarter
    \/ RestDay
    \/ WorkoutDay
    \/ EndQuarter
    \/ ReturnWorkouts

Spec == Init /\ [][Next]_vars

\* ------------------------------------------------- the functions, called
\* directly on inputs from bounded sets, in successive executions of the
\* script (each process has its own str-hash key).
ProbeWeeks == 1..MaxWeek
ProbeExercises == DOMAIN ONE_RM_PROGRESSION \cup {"treadmill_run"}
ProbeDates ==
    UNION {{QuarterStart(n), QuarterStart(n) + 45, QuarterEnd(n)} :
                n \in 0..(NumQuarters - 1)}
    \cup {QuarterStart(0) - k : k \in 1..ProbeMargin}
    \cup {QuarterEnd(NumQuarters - 1) + k : k \in 1..ProbeMargin}
ProbeWeights == {500, 855, 1020, 1165}
ProbeReps == (1..MaxReps) \cup {10}
SeedDates == {FirstMonday(QuarterStart(0)), QuarterEnd(NumQuarters - 1)}
ProbeExerciseNums == 0..MaxExerciseNum

Seeded == {"generate_actual_performance", "should_skip_workout", "should_skip_exercise"}

InitFn ==
    /\ pc = "call"
    /\ clock = TodayFirst
    /\ hashKey \in HashKeys
    /\ rng = Seed(42)
    /\ rolled = {}
    /\ plans = <<>>
    /\ programs = <<>>
    /\ i = 0
    /\ week_num = 0
    /\ current_date = 0
    /\ workouts = <<>>
    /\ instances = <<>>
    /\ sets = <<>>
    /\ total_stats = Stats(0)
    /\ call = Called("none", <<>>, None)
    /\ first = Called("none", <<>>, None)
    /\ NotSaving
    /\ NoClasses

\* a call that leaves the generator alone
Pure(c) ==
    /\ pc = "call"
    /\ call' = c
    /\ first' = Called("none", <<>>, None)
    /\ UNCHANGED <<pc, clock, hashKey, rng, rolled, plans, programs, i, week_num,
                   current_date, workouts, instances, sets, total_stats,
                   mainVars, classVars>>

\* a seeded function applied to its arguments in a process with str-hash key
\* key: [ret |-> result, rng |-> generator state after the call]
SeededCall(fn, args, key) ==
    CASE fn = "generate_actual_performance" ->
            generate_actual_performance(args[1], args[2], args[3], args[4], key)
      [] fn = "should_skip_workout" -> should_skip_workout(args[1], key)
      [] fn = "should_skip_exercise" -> should_skip_exercise(args[1], args[2], key)

\* a call that reseeds the generator
Draw(f, a) ==
    /\ pc = "call"
    /\ call' = Called(f, a, SeededCall(f, a, hashKey).ret)
    /\ rng' = SeededCall(f, a, hashKey).rng
    /\ first' = Called("none", <<>>, None)
    /\ UNCHANGED <<pc, clock, hashKey, rolled, plans, programs, i, week_num,
                   current_date, workouts, instances, sets, total_stats,
                   mainVars, classVars>>

CallGetPhaseForWeek ==
    \E w \in ProbeWeeks :
        Pure(Called("get_phase_for_week", <<w>>, get_phase_for_week(w)))

CallGetIntensityForWeek ==
    \E w \in ProbeWeeks :
        Pure(Called("get_intensity_for_week", <<w>>,
                    get_intensity_for_week(w, get_phase_for_week(w)[2])))

CallGet1rmForDate ==
    \E e \in ProbeExercises, d \in ProbeDates :
        Pure(Called("get_1rm_for_date", <<e, d>>, get_1rm_for_date(e, d)))

CallGenerateActualPerformance ==
    \E tw \in ProbeWeights, reps \in ProbeReps, d \in SeedDates, n \in ProbeExerciseNums :
        Draw("generate_actual_performance", <<tw, reps, d, n>>)

CallShouldSkipWorkout ==
    \E d \in SeedDates : Draw("should_skip_workout", <<d>>)

CallShouldSkipExercise ==
    \E d \in SeedDates, n \in ProbeExerciseNums : Draw("should_skip_exercise", <<d, n>>)

\* The script is executed again and reaches the same seeded call: a new
\* process, with its own str-hash key and the generator seeded at import.
\* The call of the earlier execution is kept in first.
Rerun ==
    /\ pc = "call"
    /\ Fn(call) \in Seeded
    /\ Fn(first) = "none"
    /\ hashKey' \in HashKeys
    /\ first' = call
    /\ call' = Called(Fn(call), Args(call), SeededCall(Fn(call), Args(call), hashKey').ret)
    /\ rng' = SeededCall(Fn(call), Args(call), hashKey').rng
    /\ UNCHANGED <<pc, clock, rolled, plans, programs, i, week_num,
                   current_date, workouts, instances, sets, total_stats,
                   mainVars, classVars>>

NextFn ==
    \/ CallGetPhaseForWeek
    \/ CallGetIntensityForWeek
    \/ CallGet1rmForDate
    \/ CallGenerateActualPerformance
    \/ CallShouldSkipWorkout
    \/ CallShouldSkipExercise
    \/ Rerun

SpecFn == InitFn /\ [][NextFn]_vars

\* ------------------------------------------------ the files main loads
\* Ids of records an existing file may hold: of another member (alice, bob)
\* or of bobby; fresh when this run generates a record with the same id.
Lead(name, owner) ==
    CASE name = "plans" ->
            (IF owner = "bobby" THEN "plan_bobby_"
             ELSE IF owner = "alice" THEN "plan_alice_" ELSE "plan_bob_")
      [] name = "programs" ->
            (IF owner = "bobby" THEN "prog_bobby_"
             ELSE IF owner = "alice" THEN "prog_alice_" ELSE "prog_bob_")
      [] name = "targets" ->
            (IF owner = "bobby" THEN "bobby-"
             ELSE IF owner = "alice" THEN "alice-" ELSE "bob-")
      [] OTHER ->
            (IF owner = "bobby" THEN "bobby_"
             ELSE IF owner = "alice" THEN "alice_" ELSE "bob_")

ExistingId(name, owner, fresh) ==
    LET quarter_id == IF fresh THEN QuarterId(0) ELSE <<"q","3","_","2","0","2","4">>
        date == IF fresh THEN FirstMonday(QuarterStart(0)) ELSE QuarterStart(0) - 1
        workout_id == <<Lead(name, owner), Strftime(date), "_strength">>
    IN  CASE name = "plans" -> <<Lead(name, owner), quarter_id>>
          [] name = "programs" ->
                <<Lead(name, owner), quarter_id, "_", Lower(Phase(0).name)>>
          [] name = "workouts" -> workout_id
          [] name = "instances" -> InstanceId(workout_id, 0)
          [] name = "sets" -> SetId(InstanceId(workout_id, 0), 0)
          [] name = "targets" ->
                <<Lead(name, owner),
                  IF fresh THEN "barbell_back_squat" ELSE "leg_press">>

ExistingRecord(id, owner) == [id |-> id, memberId |-> owner, status |-> "existing"]

\* What json.load may return for a collection: nothing, records of other
\* members only, or records of other members together with bobby's from an
\* earlier run (one with an id this run generates again, one without).
Contents(name) ==
    LET alice == ExistingRecord(ExistingId(name, "alice", TRUE), "alice")
        bob == ExistingRecord(ExistingId(name, "bob", TRUE), "bob")
        stale == ExistingRecord(ExistingId(name, "bobby", FALSE), "bobby")
        again == ExistingRecord(ExistingId(name, "bobby", TRUE), "bobby")
        dict(records) ==
            [id \in {r.id : r \in records} |-> CHOOSE r \in records : r.id = id]
    IN  IF name = "workouts"
        THEN {<<>>, <<alice, bob>>, <<stale, alice, again, alice>>}
        ELSE {dict({}), dict({alice, bob}), dict({alice, stale, again})}

\* The system dates main's save steps are run under: before every workout
\* and after every workout.
SaveTodays == {TodayFirst, TodayFirst + 97 * (NumTodays - 1)}

InitMain == Init /\ clock \in SaveTodays

\* main, lines 524 to 540: every generator has run to its return
GenerateAll ==
    /\ pc = "main"
    /\ \E g \in {generate_workouts_with_data(clock, hashKey, rng)} :
           /\ workouts' = g.workouts
           /\ instances' = g.instances
           /\ sets' = g.sets
           /\ total_stats' = g.total_stats
           /\ rolled' = g.rolled
           /\ rng' = g.rng
           /\ week_num' = g.week_num
           /\ current_date' = g.current_date
    /\ plans' = generate_plans(QUARTERS)
    /\ programs' = generate_programs(clock)
    /\ i' = NumQuarters
    /\ targets' = generate_targets(ONE_RM_PROGRESSION)
    /\ pc' = "save"
    /\ UNCHANGED <<clock, hashKey, call, first, existing, output, written, classVars>>

\* one "# Save ..." block of main: load the file, merge, dump
SaveCollection ==
    /\ pc = "save"
    /\ Len(written) < Len(SaveOrder)
    /\ LET name == SaveOrder[Len(written) + 1]
       IN  \E loaded \in Contents(name) :
            /\ existing' = Some(loaded)
            /\ output' = Some(Merge(name, loaded, Generated(name)))
            /\ written' = Append(written, name)
    /\ UNCHANGED <<pc, clock, hashKey, rng, rolled, plans, programs, i, week_num,
                   current_date, workouts, instances, sets, total_stats, call, first,
                   targets, classVars>>

\* open(..., "r") or json.load raises (file missing, malformed JSON): the
\* exception is not handled, the run ends before the file is opened for writing
AbortOnLoad ==
    /\ pc = "save"
    /\ Len(written) < Len(SaveOrder)
    /\ pc' = "aborted"
    /\ UNCHANGED <<clock, hashKey, rng, rolled, plans, programs, i, week_num,
                   current_date, workouts, instances, sets, total_stats, call, first,
                   mainVars, classVars>>

\* main returns after the last block
Finish ==
    /\ pc = "save"
    /\ Len(written) = Len(SaveOrder)
    /\ pc' = "done"
    /\ UNCHANGED <<clock, hashKey, rng, rolled, plans, programs, i, week_num,
                   current_date, workouts, instances, sets, total_stats, call, first,
                   mainVars, classVars>>

NextMain ==
    \/ GenerateAll
    \/ SaveCollection
    \/ AbortOnLoad
    \/ Finish

\* main from its first line to its return or its abort
SpecMain == InitMain /\ [][NextMain]_vars

\* ------------------------------------------------------------- properties

\* the calendar date and the week counter a workout record carries
DateOf(workout) ==
    ToOrdinal(workout.scheduledDate[1][1], workout.scheduledDate[1][3],
              workout.scheduledDate[1][5])
WeekOf(workout) == workout.name[2]

\* The workouts a state predicate looks at: the one appended last, and all of
\* them once the walk has returned.
Recent ==
    IF pc = "generated" THEN 1..Len(workouts)
    ELSE {k \in {Len(workouts)} : k >= 1}

\* the instances of a workout that are present in the instance collection
InstancesOf(workout) == {id \in DOMAIN instances : instances[id].workoutId = workout.id}

\* C1: for every week w in 1..12 exactly one phase has week_start <= w <=
\* week_end (the ranges 1-4, 5-8, 9-12), and get_phase_for_week returns that
\* phase; for every w > 12 it returns the last phase, index 2, Realization.
C1_PhaseOfWeek ==
    Fn(call) = "get_phase_for_week" =>
        LET w == Args(call)[1]
            idx == Ret(call)[1]
            phase == Ret(call)[2]
            containing == {p \in 1..Len(PHASES) :
                              PHASES[p].weeks[1] <= w /\ w <= PHASES[p].weeks[2]}
        IN  /\ w \in 1..12 => Cardinality(containing) = 1 /\ containing = {idx + 1}
            /\ w \in 1..4 => idx = 0
            /\ w \in 5..8 => idx = 1
            /\ w \in 9..12 => idx = 2
            /\ w > 12 => idx = 2 /\ Lower(phase.name) = Lower(PHASES[3].name)
            /\ phase = PHASES[idx + 1]

\* C1 witness: a week beyond 12 was resolved, to the last phase
C1_Witness ==
    /\ Fn(call) = "get_phase_for_week"
    /\ Args(call)[1] > 12
    /\ Ret(call)[1] = 2

\* C2: get_1rm_for_date returns 100 for an exercise that is not in the table;
\* for a known exercise the i-th progression value when the date is inside
\* quarter i, and the last value when it is outside every quarter;
\* barbell_back_squat resolves to 170 from 2024-10-01 to 2024-12-31.
C2_OneRmOfDate ==
    Fn(call) = "get_1rm_for_date" =>
        LET e == Args(call)[1]
            d == Args(call)[2]
            r == Ret(call)
            inQuarter(n) == /\ Strptime(QUARTERS[n].start) <= d
                            /\ d <= Strptime(QUARTERS[n].end)
        IN  /\ e \notin DOMAIN ONE_RM_PROGRESSION => r = 100
            /\ e \in DOMAIN ONE_RM_PROGRESSION =>
                /\ \A n \in 1..Len(QUARTERS) :
                        inQuarter(n) => r = ONE_RM_PROGRESSION[e][n]
                /\ (\A n \in 1..Len(QUARTERS) : ~inQuarter(n)) =>
                        r = ONE_RM_PROGRESSION[e][Len(QUARTERS)]
            /\ ( /\ e = "barbell_back_squat"
                 /\ ToOrdinal(2024, 10, 1) <= d
                 /\ d <= ToOrdinal(2024, 12, 31) ) => r = 170

\* C2 witness: the squat was looked up on the last day of Q4 2024
C2_Witness ==
    /\ Fn(call) = "get_1rm_for_date"
    /\ Args(call) = <<"barbell_back_squat", ToOrdinal(2024, 12, 31)>>
    /\ Ret(call) = 170

\* C8: generate_actual_performance returns (target weight, target reps,
\* completed), or the target weight with 1 to 3 more reps, or the target
\* weight with a rep count from 1 to the target, or the target reps with the
\* weight 0.9 x target rounded to one decimal, each completed, or (None, None,
\* skipped); never a completed set without weight and reps or with reps < 1.
C8_OutcomeOfSet ==
    Fn(call) = "generate_actual_performance" =>
        LET tw == Args(call)[1]
            reps == Args(call)[2]
            r == Ret(call)
        IN  /\ r[3] \in {"completed", "skipped"}
            /\ r[3] = "skipped" => r[1] = None /\ r[2] = None
            /\ r[3] = "completed" =>
                /\ r[1] # None
                /\ r[2] # None
                /\ r[2][1] >= 1
                /\ \/ r[1][1] = tw /\ r[2][1] = reps
                   \/ r[1][1] = tw /\ (r[2][1] - reps) \in 1..3
                   \/ r[1][1] = tw /\ r[2][1] >= 1 /\ r[2][1] <= reps
                   \/ /\ r[2][1] = reps
                      /\ (10 * r[1][1] - 9 * tw) \in (-5)..5

\* C8 witness: a weight_drop outcome was drawn
C8_Witness ==
    /\ Fn(call) = "generate_actual_performance"
    /\ Ret(call)[3] = "completed"
    /\ Ret(call)[1][1] < Args(call)[1]
    /\ Ret(call)[2][1] = Args(call)[2]

\* C9: a seeded function called with the same arguments in two executions of
\* the script returns the same result in both.
C9_SameResultInEveryRun ==
    (Fn(first) = Fn(call) /\ Args(first) = Args(call)) => Ret(call) = Ret(first)


\* C3: every set of a strength workout has targetWeight = round(1RM(exercise,
\* workout date) x intensity(week counter, resolved phase), 1); the first
\* strength workout of Q4 2024 is generated with week counter 1 and its
\* barbell_back_squat sets have targetWeight 102.0.
C3_TargetWeight ==
    /\ \A k \in Recent :
        LET workout == workouts[k]
            intensity == get_intensity_for_week(WeekOf(workout),
                                                get_phase_for_week(WeekOf(workout))[2])
        IN  workout.type = "strength" =>
                \A iid \in InstancesOf(workout) : \A n \in DOMAIN instances[iid].setIds :
                    LET set == sets[instances[iid].setIds[n]]
                        one_rm == get_1rm_for_date(instances[iid].exerciseId, DateOf(workout))
                        \* twice the distance of the weight from one_rm x intensity,
                        \* in units of 1 / (10 den)
                        off2 == 2 * (set.targetWeight[1] * intensity.den
                                     - one_rm * intensity.num * 10)
                    IN  /\ set.targetWeight # None
                        /\ off2 <= intensity.den
                        /\ -off2 <= intensity.den
    /\ Len(workouts) >= 1 =>
        /\ workouts[1].type = "strength"
        /\ WeekOf(workouts[1]) = 1
        /\ DateOf(workouts[1]) \in ToOrdinal(2024, 10, 1)..ToOrdinal(2024, 12, 31)
        /\ \A iid \in InstancesOf(workouts[1]) :
                instances[iid].exerciseId = "barbell_back_squat" =>
                    \A n \in DOMAIN instances[iid].setIds :
                        sets[instances[iid].setIds[n]].targetWeight = Some(1020)

\* C3 witness: the first workout has a squat instance whose sets are at 102.0
C3_Witness ==
    /\ Len(workouts) >= 1
    /\ \E iid \in InstancesOf(workouts[1]) :
        /\ instances[iid].exerciseId = "barbell_back_squat"
        /\ Len(instances[iid].setIds) = 3
        /\ sets[instances[iid].setIds[1]].targetWeight = Some(1020)

\* C4: for every strength workout of the walk the intensity of its week
\* counter in its resolved phase lies between the phase's start and end
\* intensity, and strictly between 0 and 1.
C4_IntensityInPhaseRange ==
    \A k \in Recent :
        LET workout == workouts[k]
            phase == get_phase_for_week(WeekOf(workout))[2]
            intensity == get_intensity_for_week(WeekOf(workout), phase)
        IN  workout.type = "strength" =>
                /\ phase.intensity_range[1] * intensity.den <= 100 * intensity.num
                /\ 100 * intensity.num <= phase.intensity_range[2] * intensity.den
                /\ 0 < intensity.num
                /\ intensity.num < intensity.den

\* how many workouts of a type are dated d
CountOn(d, type) ==
    Cardinality({k \in 1..Len(workouts) :
                    DateOf(workouts[k]) = d /\ workouts[k].type = type})

\* the days from..to of a quarter carry exactly the weekday's workout
DaysAsScheduled(from, to) ==
    \A d \in from..to :
        /\ CountOn(d, "strength") = IF Weekday(d) \in {0, 2, 4} THEN 1 ELSE 0
        /\ CountOn(d, "cardio") = IF Weekday(d) \in {1, 3} THEN 1 ELSE 0

\* C5, as claimed: every day from a quarter's start to its end has exactly one
\* strength workout if it is a Monday, Wednesday or Friday, exactly one
\* cardio workout if it is a Tuesday or Thursday, none on Saturday and Sunday.
C5_EveryDayOfQuarter ==
    pc \in {"for", "generated"} =>
        \A n \in 0..(i - 1) : DaysAsScheduled(QuarterStart(n), QuarterEnd(n))

\* C5, amended: that holds for every day from the first Monday on or after
\* the quarter's start to the quarter's end; the days of the quarter before
\* that Monday have no workout.
C5_EveryDayFromFirstMonday ==
    pc \in {"for", "generated"} =>
        \A n \in 0..(i - 1) :
            LET monday == CHOOSE d \in QuarterStart(n)..(QuarterStart(n) + 6) :
                                Weekday(d) = 0
            IN  /\ DaysAsScheduled(monday, QuarterEnd(n))
                /\ \A d \in QuarterStart(n)..(monday - 1) :
                        CountOn(d, "strength") = 0 /\ CountOn(d, "cardio") = 0

\* C5 witness: the first quarter is walked; its first Monday has a strength
\* workout and its last day, a Tuesday, a cardio workout
C5_Witness ==
    /\ pc = "for"
    /\ i = 1
    /\ CountOn(ToOrdinal(2024, 10, 7), "strength") = 1
    /\ CountOn(ToOrdinal(2024, 12, 31), "cardio") = 1


\* C6: every workout references exactly one program, one of the 15 that
\* generate_programs produced: the program of the plan of the quarter the
\* workout is dated in, named after the phase of the week counter -
\* Accumulation for 1-4, Intensification for 5-8, Realization from 9 on.
C6_WorkoutProgram ==
    \A k \in Recent :
        LET workout == workouts[k]
            week == WeekOf(workout)
            quarters == {n \in 1..Len(QUARTERS) :
                            /\ Strptime(QUARTERS[n].start) <= DateOf(workout)
                            /\ DateOf(workout) <= Strptime(QUARTERS[n].end)}
            phaseName == IF week \in 1..4 THEN PHASES[1].name
                         ELSE IF week \in 5..8 THEN PHASES[2].name
                         ELSE PHASES[3].name
        IN  /\ Cardinality(DOMAIN programs) = 15
            /\ Cardinality({id \in DOMAIN programs : id = workout.programId}) = 1
            /\ week >= 1
            /\ Cardinality(quarters) = 1
            /\ \A n \in quarters :
                /\ programs[workout.programId].planId \in DOMAIN plans
                /\ plans[programs[workout.programId].planId].startDate[1] = QUARTERS[n].start
                /\ programs[workout.programId].name = phaseName

\* C6 witness: the workout of Monday 2024-12-30, week counter 13, references
\* the Realization program of the Q4 2024 plan
C6_Witness ==
    \E k \in Recent :
        /\ WeekOf(workouts[k]) = 13
        /\ DateOf(workouts[k]) = ToOrdinal(2024, 12, 30)
        /\ programs[workouts[k].programId].name = PHASES[3].name
        /\ programs[workouts[k].programId].planId = PlanId(0)

\* C7: every set's exerciseInstanceId is the id of a generated instance, and
\* the set's id is in that instance's setIds and in no other instance's;
\* every instance's workoutId is the id of exactly one generated workout;
\* workout ids are pairwise distinct.
C7_ReferentialIntegrity ==
    pc \in {"for", "generated"} =>
        /\ \A sid \in DOMAIN sets :
            /\ sets[sid].id = sid
            /\ sets[sid].exerciseInstanceId \in DOMAIN instances
            /\ \E n \in DOMAIN instances[sets[sid].exerciseInstanceId].setIds :
                    instances[sets[sid].exerciseInstanceId].setIds[n] = sid
        /\ \A iid \in DOMAIN instances :
            /\ instances[iid].id = iid
            /\ \A n \in DOMAIN instances[iid].setIds :
                /\ instances[iid].setIds[n] \in DOMAIN sets
                /\ sets[instances[iid].setIds[n]].exerciseInstanceId = iid
            /\ Cardinality({k \in 1..Len(workouts) :
                                workouts[k].id = instances[iid].workoutId}) = 1
        /\ Cardinality({workouts[k].id : k \in 1..Len(workouts)}) = Len(workouts)

\* C7 witness: a quarter is walked, with more sets than instances and more
\* instances than workouts
C7_Witness ==
    /\ pc = "for"
    /\ i >= 1
    /\ Cardinality(DOMAIN sets) > Cardinality(DOMAIN instances)
    /\ Cardinality(DOMAIN instances) > Len(workouts)
    /\ \E k \in 1..Len(workouts) : DateOf(workouts[k]) = ToOrdinal(2024, 12, 31)

\* C10: a workout dated on or after today is scheduled, has no completedDate,
\* has its full exercise list, an instance per exercise, all scheduled, and
\* all their sets scheduled without actual weight and reps; a workout dated
\* before today is completed or skipped; the skip gates and the outcome
\* sampler are invoked for dates before today only.
C10_FutureIsScheduled ==
    /\ \A r \in rolled : r[2] < clock
    /\ \A k \in Recent :
        LET workout == workouts[k]
        IN  /\ DateOf(workout) < clock => workout.status \in {"completed", "skipped"}
            /\ DateOf(workout) >= clock =>
                /\ workout.status = "scheduled"
                /\ workout.completedDate = None
                /\ Len(workout.exerciseIds) = IF workout.type = "strength" THEN 5 ELSE 1
                /\ Cardinality(InstancesOf(workout)) = Len(workout.exerciseIds)
                /\ \A iid \in InstancesOf(workout) :
                    /\ instances[iid].status = "scheduled"
                    /\ instances[iid].exerciseId
                            = workout.exerciseIds[instances[iid].orderIndex + 1]
                    /\ Len(instances[iid].setIds) >= 1
                    /\ \A n \in DOMAIN instances[iid].setIds :
                        LET set == sets[instances[iid].setIds[n]]
                        IN  /\ set.completion = "scheduled"
                            /\ set.actualWeight = None
                            /\ set.actualReps = None

\* C10 witness: the workout dated today is scheduled, with scheduled sets,
\* while an earlier workout was rolled and skipped
C10_Witness ==
    /\ \E k \in Recent :
        /\ DateOf(workouts[k]) = clock
        /\ workouts[k].status = "scheduled"
        /\ \E iid \in InstancesOf(workouts[k]) :
                sets[instances[iid].setIds[1]].completion = "scheduled"
    /\ \E j \in 1..Len(workouts) : workouts[j].status = "skipped"
    /\ rolled # {}


\* the strength workout generated last before workout k, if there is one
PrevStrength(k) ==
    {j \in 1..(k - 1) :
        /\ workouts[j].type = "strength"
        /\ \A m \in (j + 1)..(k - 1) : workouts[m].type # "strength"}

\* C11: for a strength workout the selection is a function of the date alone:
\* five exercises, slot i (0-based) gets option (date ordinal + i) mod the
\* option count of slot i; and the selections of two consecutive strength
\* days of the walk (Mon->Wed, Wed->Fri, Fri->Mon, and the last strength day
\* of a quarter -> the first of the next) differ.
C11_ExerciseRotation ==
    \A k \in Recent :
        workouts[k].type = "strength" =>
            LET d == DateOf(workouts[k])
                selected == select_exercises_for_workout(d, "strength")
            IN  /\ Len(selected) = 5
                /\ \A s \in 1..5 :
                        selected[s] = FULL_BODY_EXERCISES[s][
                            ((d + (s - 1)) % Len(FULL_BODY_EXERCISES[s])) + 1]
                /\ workouts[k].status # "skipped" => workouts[k].exerciseIds = selected
                /\ \A iid \in InstancesOf(workouts[k]) :
                        instances[iid].exerciseId = selected[instances[iid].orderIndex + 1]
                /\ \A j \in PrevStrength(k) :
                        /\ DateOf(workouts[j]) < d
                        /\ select_exercises_for_workout(DateOf(workouts[j]), "strength")
                                # selected
                        /\ ( /\ workouts[j].status # "skipped"
                             /\ workouts[k].status # "skipped" ) =>
                                workouts[j].exerciseIds # workouts[k].exerciseIds

\* C11 witness: the first strength day of Q1 2025 (Monday 2025-01-06) follows
\* the last of Q4 2024 (Monday 2024-12-30), with another selection
C11_Witness ==
    \E k \in Recent :
        /\ workouts[k].type = "strength"
        /\ DateOf(workouts[k]) = ToOrdinal(2025, 1, 6)
        /\ \E j \in PrevStrength(k) :
            /\ DateOf(workouts[j]) = ToOrdinal(2024, 12, 30)
            /\ select_exercises_for_workout(DateOf(workouts[j]), "strength")
                    # select_exercises_for_workout(DateOf(workouts[k]), "strength")


\* whether an id carries the prefix reserved for bobby's records of a collection
Carries(name, id) ==
    LET p == Prefix(name)
        c == Chars(id[1])
    IN  Len(c) >= Len(p) /\ \A k \in 1..Len(p) : c[k] = p[k]

\* C12: after main has rewritten plans, programs, workouts, instances or sets
\* from an existing collection with N records whose id does not carry the
\* prefix and M whose id does, the written collection has exactly N + (number
\* of generated records) records, every one of the N is in it unchanged, and
\* every written record with the prefix is a generated one.
C12_MergeKeepsForeign ==
    ( /\ Len(written) >= 1
      /\ written[Len(written)] \in {"plans", "programs", "workouts", "instances", "sets"} ) =>
        LET name == written[Len(written)]
            ex == existing[1]
            out == output[1]
            gen == Generated(name)
        IN  IF name = "workouts"
            THEN LET foreign == {k \in 1..Len(ex) : ~Carries(name, ex[k].id)}
                 IN  /\ Len(out) = Cardinality(foreign) + Len(gen)
                     /\ \A k \in foreign :
                            Cardinality({j \in 1..Len(out) : out[j] = ex[k]})
                                = Cardinality({j \in foreign : ex[j] = ex[k]})
                     /\ Cardinality({j \in 1..Len(out) : Carries(name, out[j].id)}) = Len(gen)
                     /\ \A j \in 1..Len(gen) : out[Cardinality(foreign) + j] = gen[j]
            ELSE LET foreign == {id \in DOMAIN ex : ~Carries(name, id)}
                 IN  /\ Cardinality(DOMAIN out)
                            = Cardinality(foreign) + Cardinality(DOMAIN gen)
                     /\ \A id \in foreign : id \in DOMAIN out /\ out[id] = ex[id]
                     /\ \A id \in DOMAIN out :
                            Carries(name, id) => id \in DOMAIN gen /\ out[id] = gen[id]

\* C12 witness: workouts.json held two records of another member and two of
\* bobby's from an earlier run; the written list has the two and the generated
C12_Witness ==
    /\ Len(written) >= 1
    /\ written[Len(written)] = "workouts"
    /\ Len(existing[1]) = 4
    /\ Cardinality({k \in 1..4 : Carries("workouts", existing[1][k].id)}) = 2
    /\ Len(workouts) > 0
    /\ Len(output[1]) = 2 + Len(workouts)

\* C13: main rewrites the collections in the order plans, programs, workouts,
\* instances, sets, targets, each loaded immediately before it is written and
\* only after all generation has finished; a failed load aborts the run with
\* the collections before it rewritten and it and the later ones untouched,
\* so the rewritten files always form a prefix of that order, and a run that
\* does not abort rewrites all six.
C13_SaveOrder ==
    /\ [](LET order == <<"plans", "programs", "workouts", "instances", "sets", "targets">>
          IN  /\ Len(written) <= 6
              /\ \A k \in 1..Len(written) : written[k] = order[k]
              /\ pc = "done" => written = order
              /\ written # <<>> => pc \in {"save", "aborted", "done"}
              /\ pc \in {"save", "aborted", "done"} =>
                    i = NumQuarters /\ DOMAIN targets # {} /\ DOMAIN plans # {})
    /\ [][ /\ pc' = "aborted" =>
                pc = "save" /\ Len(written) < 6 /\ written' = written /\ output' = output
           /\ pc' = "done" => pc = "save" /\ written' = written
           /\ written' # written =>
                /\ pc = "save"
                /\ Len(written') = Len(written) + 1
                /\ existing' # None
                /\ output' # None
                /\ <<plans, programs, workouts, instances, sets, targets>>'
                        = <<plans, programs, workouts, instances, sets, targets>> ]_vars

\* C13 witness: loading workouts.json failed; plans and programs are
\* rewritten, the four others are not
C13_Witness ==
    /\ pc = "aborted"
    /\ written = <<"plans", "programs">>
    /\ Len(workouts) > 0


\* the calendar date of a stored "<isoformat>T<time>Z" field
StoredDate(field) == ToOrdinal(field[1][1], field[1][3], field[1][5])

\* C14: generate_programs produces exactly 15 programs, one per quarter and
\* phase, each referencing its quarter's plan; in the final quarter (Q4 2025)
\* Realization is active and Accumulation and Intensification are completed
\* whatever their dates; in every other quarter a program is completed if its
\* end date is before today, active if start <= today <= end, scheduled
\* otherwise.
C14_ProgramStatus ==
    pc = "for" =>
        /\ Cardinality(DOMAIN programs) = 15
        /\ \A id \in DOMAIN programs : programs[id].planId \in DOMAIN plans
        /\ \A n \in 1..Len(QUARTERS) : \A p \in 1..Len(PHASES) :
                Cardinality({id \in DOMAIN programs :
                                /\ plans[programs[id].planId].startDate[1] = QUARTERS[n].start
                                /\ programs[id].name = PHASES[p].name}) = 1
        /\ \A id \in DOMAIN programs :
            LET prog == programs[id]
                start == StoredDate(prog.startDate)
                end == StoredDate(prog.endDate)
                final == plans[prog.planId].startDate[1] = QUARTERS[Len(QUARTERS)].start
            IN  IF final
                THEN /\ prog.name = PHASES[3].name => prog.status = "active"
                     /\ prog.name \in {PHASES[1].name, PHASES[2].name} =>
                            prog.status = "completed"
                ELSE prog.status = IF end < clock THEN "completed"
                                   ELSE IF start <= clock /\ clock <= end THEN "active"
                                   ELSE "scheduled"

\* C14 witness: today is 2025-01-07; of the generated programs one of Q1 2025
\* is active, one of Q2 2025 is scheduled, and the Accumulation program of
\* Q4 2025 is completed although it starts after today
C14_Witness ==
    /\ pc = "for"
    /\ i = 0
    /\ clock = ToOrdinal(2025, 1, 7)
    /\ \E id \in DOMAIN programs :
        /\ programs[id].planId = PlanId(1)
        /\ programs[id].status = "active"
    /\ \E id \in DOMAIN programs :
        /\ programs[id].planId = PlanId(2)
        /\ programs[id].status = "scheduled"
    /\ \E id \in DOMAIN programs :
        /\ programs[id].planId = PlanId(4)
        /\ programs[id].name = PHASES[1].name
        /\ programs[id].status = "completed"
        /\ StoredDate(programs[id].startDate) > clock


\* a workout dated outside the [startDate, endDate] range of its program
OutsideProgram(workout) ==
    LET prog == programs[workout.programId]
    IN  \/ DateOf(workout) < StoredDate(prog.startDate)
        \/ DateOf(workout) > StoredDate(prog.endDate)

\* C15: once a quarter is walked the generated data holds a workout whose
\* scheduled date lies outside the date range of the program it references:
\* one of week counter 4 dated after the end of its Accumulation program, and
\* one dated after day 84 of its quarter that is assigned to Realization.
C15_DatesDiverge ==
    (pc \in {"for", "generated"} /\ i >= 1) =>
        /\ \E k \in 1..Len(workouts) :
            /\ WeekOf(workouts[k]) = 4
            /\ programs[workouts[k].programId].name = PHASES[1].name
            /\ DateOf(workouts[k]) > StoredDate(programs[workouts[k].programId].endDate)
            /\ OutsideProgram(workouts[k])
        /\ \E k \in 1..Len(workouts) : \E n \in 1..Len(QUARTERS) :
            /\ Strptime(QUARTERS[n].start) + 84 <= DateOf(workouts[k])
            /\ DateOf(workouts[k]) <= Strptime(QUARTERS[n].end)
            /\ programs[workouts[k].programId].name = PHASES[3].name
            /\ OutsideProgram(workouts[k])

\* C15 witness: Q4 2024 is walked; the workout of Tuesday 2024-10-29 has week
\* counter 4 and references the Accumulation program that ends 2024-10-28
C15_Witness ==
    /\ pc = "for"
    /\ i = 1
    /\ \E k \in 1..Len(workouts) :
        /\ DateOf(workouts[k]) = ToOrdinal(2024, 10, 29)
        /\ WeekOf(workouts[k]) = 4
        /\ StoredDate(programs[workouts[k].programId].endDate) = ToOrdinal(2024, 10, 28)
        /\ OutsideProgram(workouts[k])


\* ------------------------------------------------------------------- C17
\* The control part of Next: the guard of every action and what the action
\* does to the position, the quarter index and the date of the walk. Under
\* Spec a step of Next is a step of WalkControl, and one is enabled exactly when
\* the other is.
WalkControl ==
    \/ pc = "main" /\ pc' = "plans" /\ UNCHANGED <<i, current_date>>
    \/ pc = "plans" /\ pc' = "for" /\ UNCHANGED <<i, current_date>>
    \/ /\ pc = "for" /\ i < NumQuarters
       /\ pc' = "while" /\ current_date' = FirstMonday(QuarterStart(i))
       /\ UNCHANGED i
    \/ /\ pc = "while" /\ current_date <= QuarterEnd(i)
       /\ current_date' = current_date + 1
       /\ UNCHANGED <<pc, i>>
    \/ /\ pc = "while" /\ current_date > QuarterEnd(i)
       /\ pc' = "for" /\ i' = i + 1
       /\ UNCHANGED current_date
    \/ pc = "for" /\ i = NumQuarters /\ pc' = "generated" /\ UNCHANGED <<i, current_date>>

\* The script is one sequential process: a statement that can run does run.
\* The walk is followed for the first and the last of the system dates.
FairSpec == InitMain /\ [][Next]_vars /\ WF_<<pc, i, current_date>>(WalkControl)

\* the Monday of the calendar week a workout is scheduled in
MondayOf(workout) == DateOf(workout) - Weekday(DateOf(workout))

\* protocol_id of the iteration that built a workout
ProtocolOfWorkout(workout) ==
    ProtocolId(workout.type, get_phase_for_week(WeekOf(workout))[2])

\* the workouts appended before workout k in the same calendar week
EarlierInWeek(k) ==
    {j \in (k - 4)..(k - 1) : j >= 1 /\ MondayOf(workouts[j]) = MondayOf(workouts[k])}

\* one step of the walk: an iteration moves the date on by exactly one day and
\* the week counter by one exactly on a Sunday; the loop is entered with week
\* counter 1 on a date inside the quarter and left on the day after its end
ForwardScanStep ==
    /\ (pc = "while" /\ pc' = "while") =>
            /\ current_date <= QuarterEnd(i)
            /\ current_date' = current_date + 1
            /\ week_num' = week_num + (IF Weekday(current_date) = 6 THEN 1 ELSE 0)
    /\ (pc = "for" /\ pc' = "while") =>
            /\ week_num' = 1
            /\ current_date' <= QuarterEnd(i)
    /\ (pc = "while" /\ pc' = "for") => current_date = QuarterEnd(i) + 1

\* the workouts of one calendar week carry one week counter and one program
WeekSharesCounter ==
    \A k \in Recent : \A j \in EarlierInWeek(k) :
        /\ WeekOf(workouts[j]) = WeekOf(workouts[k])
        /\ workouts[j].programId = workouts[k].programId

\* C17 as stated: every iteration of a quarter's walk moves the date on by one
\* day until it has passed the quarter end, and the walk of every quarter
\* ends; the week counter starts at 1 in every quarter and goes up by one
\* exactly when a Sunday is passed; all workouts of one calendar week carry
\* the same week counter, the same program and the same protocol.
C17_ForwardScan ==
    /\ [][ForwardScanStep]_vars
    /\ [](/\ WeekSharesCounter
          /\ \A k \in Recent : \A j \in EarlierInWeek(k) :
                ProtocolOfWorkout(workouts[j]) = ProtocolOfWorkout(workouts[k]))
    /\ ((pc = "while") ~> (pc = "for"))
    /\ <>(pc = "generated")

\* C17 amended: as stated, except for the protocol: the strength workouts of
\* one calendar week carry one protocol, that of the week's phase, the cardio
\* workouts carry cardio_30min_steady, and every protocol id stored in a
\* workout is the protocol of that workout.
C17_ForwardScanPerType ==
    /\ [][ForwardScanStep]_vars
    /\ [](/\ WeekSharesCounter
          /\ \A k \in Recent :
                /\ \A j \in EarlierInWeek(k) :
                      workouts[j].type = workouts[k].type =>
                          ProtocolOfWorkout(workouts[j]) = ProtocolOfWorkout(workouts[k])
                /\ workouts[k].type = "cardio" =>
                      ProtocolOfWorkout(workouts[k]) = "cardio_30min_steady"
                /\ workouts[k].type = "strength" =>
                      ProtocolOfWorkout(workouts[k]) =
                          get_phase_for_week(WeekOf(workouts[k]))[2].protocol
                /\ \A e \in DOMAIN workouts[k].protocolVariantIds :
                      workouts[k].protocolVariantIds[e] = ProtocolOfWorkout(workouts[k]))
    /\ ((pc = "while") ~> (pc = "for"))
    /\ <>(pc = "generated")

\* C17 witness: the walk of the second quarter has done its first iteration:
\* the workout of its first Monday carries week counter 1, the one before it,
\* the last of the first quarter, week counter 13
C17_Witness ==
    /\ pc = "while"
    /\ i = 1
    /\ current_date = FirstMonday(QuarterStart(1)) + 1
    /\ week_num = 1
    /\ Len(workouts) >= 2
    /\ WeekOf(workouts[Len(workouts)]) = 1
    /\ WeekOf(workouts[Len(workouts) - 1]) = 13
    /\ MondayOf(workouts[Len(workouts) - 1]) = MondayOf(workouts[Len(workouts) - 2])
\* C16: for every set whose sampled outcome is hit, in strength and in cardio
\* workouts, the stored actualWeight equals the stored targetWeight and the
\* stored actualReps the stored targetReps; and no set has an actualWeight
\* together with a null targetWeight.
C16_HitEqualsTarget ==
    \A k \in Recent : \A iid \in InstancesOf(workouts[k]) :
        \A n \in DOMAIN instances[iid].setIds :
            LET set == sets[instances[iid].setIds[n]]
                outcome == Choices(Seed(Hash(hashKey, 1, DateOf(workouts[k]),
                                             instances[iid].orderIndex * 10 + (n - 1))))
            IN  /\ ( /\ DateOf(workouts[k]) < clock
                     /\ instances[iid].status = "completed"
                     /\ outcome = "hit" ) =>
                        /\ set.actualWeight = set.targetWeight
                        /\ set.actualReps = Some(set.targetReps)
                /\ ~(set.actualWeight # None /\ set.targetWeight = None)


\* ============================================ generate_class_instances.py
\* The second script: class instances and Bobby's bookings, October to
\* December 2025. A datetime is <<date, minute of the day>>.
\* the characters of a class id
IdChars(class_id) ==
    CASE class_id = "class_full_body_burn_cellar" ->
            <<"c","l","a","s","s","_","f","u","l","l","_","b","o","d","y","_","b","u","r","n","_","c","e","l","l","a","r">>
      [] class_id = "class_red_light_district" ->
            <<"c","l","a","s","s","_","r","e","d","_","l","i","g","h","t","_","d","i","s","t","r","i","c","t">>
      [] class_id = "class_power_abs_express" ->
            <<"c","l","a","s","s","_","p","o","w","e","r","_","a","b","s","_","e","x","p","r","e","s","s">>
      [] class_id = "class_lunch_break_hiit" ->
            <<"c","l","a","s","s","_","l","u","n","c","h","_","b","r","e","a","k","_","h","i","i","t">>
      [] class_id = "class_flow_flexibility" ->
            <<"c","l","a","s","s","_","f","l","o","w","_","f","l","e","x","i","b","i","l","i","t","y">>
      [] class_id = "class_build_burn_hiit" ->
            <<"c","l","a","s","s","_","b","u","i","l","d","_","b","u","r","n","_","h","i","i","t">>
      [] class_id = "class_dynamic_morning_flow" ->
            <<"c","l","a","s","s","_","d","y","n","a","m","i","c","_","m","o","r","n","i","n","g","_","f","l","o","w">>
      [] class_id = "class_sweat_lab" ->
            <<"c","l","a","s","s","_","s","w","e","a","t","_","l","a","b">>
      [] class_id = "class_yoga_sculpt_burn" ->
            <<"c","l","a","s","s","_","y","o","g","a","_","s","c","u","l","p","t","_","b","u","r","n">>
      [] class_id = "class_full_body_circuit" ->
            <<"c","l","a","s","s","_","f","u","l","l","_","b","o","d","y","_","c","i","r","c","u","i","t">>
      [] class_id = "class_60_plus_womens" ->
            <<"c","l","a","s","s","_","6","0","_","p","l","u","s","_","w","o","m","e","n","s">>
      [] class_id = "class_full_body_burn" ->
            <<"c","l","a","s","s","_","f","u","l","l","_","b","o","d","y","_","b","u","r","n">>
      [] class_id = "class_level_up_power_yoga" ->
            <<"c","l","a","s","s","_","l","e","v","e","l","_","u","p","_","p","o","w","e","r","_","y","o","g","a">>
      [] class_id = "class_lit_pilates_fusion" ->
            <<"c","l","a","s","s","_","l","i","t","_","p","i","l","a","t","e","s","_","f","u","s","i","o","n">>
      [] class_id = "class_prenatal_postnatal" ->
            <<"c","l","a","s","s","_","p","r","e","n","a","t","a","l","_","p","o","s","t","n","a","t","a","l">>
      [] class_id = "class_glutes_abs" ->
            <<"c","l","a","s","s","_","g","l","u","t","e","s","_","a","b","s">>
      [] class_id = "class_all_level_flow_yoga" ->
            <<"c","l","a","s","s","_","a","l","l","_","l","e","v","e","l","_","f","l","o","w","_","y","o","g","a">>
      [] class_id = "class_yin_yoga_glow" ->
            <<"c","l","a","s","s","_","y","i","n","_","y","o","g","a","_","g","l","o","w">>

\* WEEKLY_SCHEDULE: day of week -> list of <<class_id, hour, minute, instructor>>
WEEKLY_SCHEDULE == <<
    <<<<"class_full_body_burn_cellar", 6, 30, "jazmin_scotto">>,
      <<"class_red_light_district", 8, 0, "nick_vargas">>,
      <<"class_full_body_burn_cellar", 9, 0, "jazmin_scotto">>,
      <<"class_power_abs_express", 10, 0, "nissa_ellison_walsh">>,
      <<"class_lunch_break_hiit", 12, 30, "carolyn_tallents">>,
      <<"class_flow_flexibility", 17, 30, "jazmin_scotto">>,
      <<"class_build_burn_hiit", 18, 30, "nissa_ellison_walsh">>>>,
    <<<<"class_dynamic_morning_flow", 6, 45, "rachael_stark_egolf">>,
      <<"class_sweat_lab", 8, 0, "andres_riggi">>,
      <<"class_yoga_sculpt_burn", 9, 0, "laura_lane">>,
      <<"class_full_body_circuit", 10, 0, "carolyn_tallents">>,
      <<"class_60_plus_womens", 11, 30, "lady_velez">>,
      <<"class_full_body_burn", 17, 30, "jazmin_scotto">>,
      <<"class_level_up_power_yoga", 18, 30, "anna_lee">>>>,
    <<<<"class_full_body_burn_cellar", 6, 30, "jazmin_scotto">>,
      <<"class_red_light_district", 8, 0, "nick_vargas">>,
      <<"class_lit_pilates_fusion", 9, 0, "stevie_barbieri">>,
      <<"class_prenatal_postnatal", 10, 30, "carolyn_tallents">>,
      <<"class_lunch_break_hiit", 12, 30, "carolyn_tallents">>,
      <<"class_flow_flexibility", 17, 30, "jazmin_scotto">>,
      <<"class_glutes_abs", 18, 30, "andres_riggi">>>>,
    <<<<"class_dynamic_morning_flow", 6, 45, "rachael_stark_egolf">>,
      <<"class_full_body_burn", 8, 0, "jazmin_scotto">>,
      <<"class_yoga_sculpt_burn", 9, 0, "laura_lane">>,
      <<"class_power_abs_express", 10, 0, "nissa_ellison_walsh">>,
      <<"class_full_body_circuit", 17, 30, "carolyn_tallents">>,
      <<"class_all_level_flow_yoga", 18, 30, "anna_lee">>,
      <<"class_build_burn_hiit", 19, 0, "nissa_ellison_walsh">>>>,
    <<<<"class_full_body_burn_cellar", 6, 30, "jazmin_scotto">>,
      <<"class_red_light_district", 8, 0, "nick_vargas">>,
      <<"class_full_body_burn_cellar", 9, 0, "jazmin_scotto">>,
      <<"class_power_abs_express", 10, 0, "nissa_ellison_walsh">>,
      <<"class_prenatal_postnatal", 10, 30, "carolyn_tallents">>,
      <<"class_full_body_burn", 17, 30, "jazmin_scotto">>>>,
    <<<<"class_lit_pilates_fusion", 8, 0, "stevie_barbieri">>,
      <<"class_all_level_flow_yoga", 9, 0, "anna_lee">>,
      <<"class_full_body_burn_cellar", 10, 0, "jazmin_scotto">>,
      <<"class_red_light_district", 11, 0, "nick_vargas">>,
      <<"class_glutes_abs", 12, 0, "andres_riggi">>>>,
    <<<<"class_lit_pilates_fusion", 8, 0, "stevie_barbieri">>,
      <<"class_level_up_power_yoga", 9, 0, "anna_lee">>,
      <<"class_red_light_district", 10, 0, "nick_vargas">>,
      <<"class_full_body_burn_cellar", 10, 0, "jazmin_scotto">>,
      <<"class_flow_flexibility", 11, 0, "jazmin_scotto">>,
      <<"class_yin_yoga_glow", 16, 0, "anna_lee">>>>>>

\* the class ids the schedule names
ScheduledIds ==
    UNION {{WEEKLY_SCHEDULE[d][k][1] : k \in 1..Len(WEEKLY_SCHEDULE[d])} : d \in 1..7}

\* str.replace(old, ""): every occurrence of old is taken out, left to right
RECURSIVE RemoveAll(_, _)
RemoveAll(s, old) ==
    IF Len(s) < Len(old) THEN s
    ELSE IF StartsWith(s, old) THEN RemoveAll(SubSeq(s, Len(old) + 1, Len(s)), old)
    ELSE <<s[1]>> \o RemoveAll(Tail(s), old)

\* the literal "class_"
ClassPrefix == <<"c","l","a","s","s","_">>

\* s[:n]
Take(s, n) == SubSeq(s, 1, Min(n, Len(s)))

\* datetime(...).replace(hour=hour, minute=minute, second=0, microsecond=0)
DateTime(date, hour, minute) == <<date, hour * 60 + minute>>

\* dt < other
Before(dt, other) == dt[1] < other[1] \/ (dt[1] = other[1] /\ dt[2] < other[2])

\* dt.strftime("%Y-%m-%dT%H:%M:%S-05:00")
StrftimeIso(dt) ==
    <<Isoformat(dt[1]), "T", dt[2] \div 60, ":", dt[2] % 60, ":00-05:00">>

\* current_date.strftime("%Y-W%W"); %W is the week of the year, the days
\* before the first Monday of the year being week 0
WeekKey(date) ==
    <<YearOf(date), "-W",
      (date - ToOrdinal(YearOf(date), 1, 1) + 1 + 6 - Weekday(date)) \div 7>>

\* "%Y%m%d_%H%M": the date and the time of day, two numerals read as numbers
generate_instance_id(class_id, dt) ==
    <<"instance_", Take(RemoveAll(IdChars(class_id), ClassPrefix), 12), "_",
      Strftime(dt[1]), "_", (dt[2] \div 60) * 100 + (dt[2] % 60)>>

generate_booking_id(member_id, class_id, dt) ==
    <<"booking_", member_id, "_",
      Take(RemoveAll(IdChars(class_id), ClassPrefix), 10), "_", Strftime(dt[1])>>

\* the schedule entries of a day whose class is in gym_classes
Offered(date, classes) ==
    SelectSeq(WEEKLY_SCHEDULE[Weekday(date) + 1], LAMBDA entry : entry[1] \in classes)

\* the instance record of a schedule entry. bookedCount and waitlistCount are
\* random numbers that nothing reads afterwards; the record leaves them out.
\* The entries of gym_classes.json carry none of the optional keys.
ClassInstance(entry, date, at) ==
    LET dt == DateTime(date, entry[2], entry[3])
    IN  [id |-> generate_instance_id(entry[1], dt),
         gymClassId |-> entry[1],
         gymId |-> "district_brooklyn",
         scheduledDate |-> StrftimeIso(dt),
         instructorId |-> entry[4],
         locationName |-> "Class Studio + Spa",
         capacity |-> 20,
         status |-> IF Before(dt, at) THEN "completed" ELSE "scheduled",
         address |-> "389 Court St"]

\* instances[instance_id] = instance, for the entries k.. of the day
RECURSIVE InstancesAfter(_, _, _, _, _)
InstancesAfter(entries, k, date, at, acc) ==
    IF k > Len(entries) THEN acc
    ELSE LET instance == ClassInstance(entries[k], date, at)
         IN  InstancesAfter(entries, k + 1, date, at, (instance.id :> instance) @@ acc)

\* the booking record of a booked session. bookingSource and bookedAt are
\* random and nothing reads them; the record leaves them out.
Booking(entry, date, at) ==
    LET dt == DateTime(date, entry[2], entry[3])
        is_past == Before(dt, at)
    IN  [id |-> generate_booking_id("bobby", entry[1], dt),
         memberId |-> "bobby",
         classInstanceId |-> generate_instance_id(entry[1], dt),
         gymClassId |-> entry[1],
         gymId |-> "district_brooklyn",
         status |-> IF is_past THEN "attended" ELSE "confirmed",
         waitlistPosition |-> None,
         creditUsed |-> 1,
         cancelledAt |-> None,
         checkedInAt |-> IF is_past THEN Some(StrftimeIso(dt)) ELSE None]

\* "Generate Bobby's bookings for this day": the loop over day_classes from
\* entry k on; books[k] is what should_bobby_book returns for entry k;
\* acc.count is bobby_week_count
RECURSIVE BookingsAfter(_, _, _, _, _, _)
BookingsAfter(entries, k, date, at, books, acc) ==
    IF k > Len(entries) \/ acc.count >= 3 THEN acc
    ELSE IF books[k]
    THEN LET booking == Booking(entries[k], date, at)
         IN  BookingsAfter(entries, k + 1, date, at, books,
                [bookings |-> (booking.id :> booking) @@ acc.bookings,
                 count |-> acc.count + 1,
                 weekly |-> (WeekKey(date) :> (acc.count + 1)) @@ acc.weekly])
    ELSE BookingsAfter(entries, k + 1, date, at, books, acc)

ClassStart == ToOrdinal(2025, 10, 1)
\* the last day the walk is followed to, end_date at the latest
WalkEnd == Min(ToOrdinal(2025, 12, 31), ClassStart + ClassWalkDays - 1)

\* gym_classes.json holds every scheduled class, or all but one; the clock
\* is read before the walk, on its second morning, or after its end
InitClass ==
    /\ pc = "classes"
    /\ clock = TodayFirst
    /\ hashKey = 0
    /\ rng = Seed(42)
    /\ rolled = {}
    /\ plans = <<>>
    /\ programs = <<>>
    /\ i = 0
    /\ week_num = 0
    /\ current_date = ClassStart
    /\ workouts = <<>>
    /\ instances = <<>>
    /\ sets = <<>>
    /\ total_stats = Stats(0)
    /\ call = Called("none", <<>>, None)
    /\ first = Called("none", <<>>, None)
    /\ NotSaving
    /\ gym_classes \in {ScheduledIds, ScheduledIds \ {"class_full_body_burn_cellar"}}
    /\ now \in {DateTime(ToOrdinal(2025, 9, 1), 12, 0),
                DateTime(ClassStart + 1, 8, 30),
                DateTime(ToOrdinal(2026, 11, 1), 12, 0)}
    /\ class_instances = <<>>
    /\ bookings = <<>>
    /\ bobby_weekly_bookings = <<>>

\* one iteration of the while loop of generate_class_instances: the day's
\* instances, then Bobby's bookings. What random.random() returns at a call
\* of should_bobby_book depends on how many numbers were drawn before it,
\* which the contents of gym_classes.json and the clock decide: either
\* answer is possible for each entry.
ClassDay ==
    /\ pc = "classes"
    /\ current_date <= WalkEnd
    /\ LET day_classes == Offered(current_date, gym_classes)
       IN  /\ class_instances' =
                InstancesAfter(day_classes, 1, current_date, now, class_instances)
           /\ \E books \in [1..Len(day_classes) -> BOOLEAN] :
                \E booked \in {BookingsAfter(day_classes, 1, current_date, now, books,
                                  [bookings |-> bookings,
                                   count |->
                                     IF WeekKey(current_date) \in DOMAIN bobby_weekly_bookings
                                     THEN bobby_weekly_bookings[WeekKey(current_date)]
                                     ELSE 0,
                                   weekly |-> bobby_weekly_bookings])} :
                    /\ bookings' = booked.bookings
                    /\ bobby_weekly_bookings' = booked.weekly
    /\ current_date' = current_date + 1
    /\ UNCHANGED <<pc, clock, hashKey, rng, rolled, plans, programs, i, week_num,
                   workouts, instances, sets, total_stats, call, first,
                   mainVars, gym_classes, now>>

\* return instances, bookings
ClassReturn ==
    /\ pc = "classes"
    /\ current_date > WalkEnd
    /\ pc' = "returned"
    /\ UNCHANGED <<clock, hashKey, rng, rolled, plans, programs, i, week_num,
                   current_date, workouts, instances, sets, total_stats, call, first,
                   mainVars, classVars>>

NextClass ==
    \/ ClassDay
    \/ ClassReturn

SpecClass == InitClass /\ [][NextClass]_vars

\* C18: no booking overwrites another: in every week the number of stored
\* bookings equals the per-week booking counter, which is at most 3.
C18_BookingIdsUnique ==
    \A week_key \in DOMAIN bobby_weekly_bookings :
        /\ bobby_weekly_bookings[week_key] <= 3
        /\ Cardinality({id \in DOMAIN bookings :
                WeekKey(StoredDate(class_instances[bookings[id].classInstanceId].scheduledDate))
                    = week_key}) = bobby_weekly_bookings[week_key]
\* C19: no program with status completed is referenced by a workout with
\* status scheduled, and no program with status scheduled is referenced by a
\* workout with status completed or skipped.
C19_StatusConsistent ==
    \A k \in Recent :
        LET prog == programs[workouts[k].programId]
        IN  /\ prog.status = "completed" => workouts[k].status # "scheduled"
            /\ prog.status = "scheduled" =>
                    workouts[k].status \notin {"completed", "skipped"}

====
